---- MODULE Spec2Model ----
(***************************************************************************)
(* Role-request voting: the RoleRequest ballot (request.py) and the        *)
(* RequestsManager registry with its write-through state file (app.py).    *)
(*                                                                         *)
(* The handlers of the Discord bot (bot.py, cogs) run on top of it, each   *)
(* split at the awaits where other handlers can run.                       *)
(*                                                                         *)
(* Python values are represented as follows.                               *)
(*   None | x          the empty sequence <<>> | the sequence <<x>>        *)
(*   None | (u, b)     the empty sequence <<>> | the pair <<u, b>>         *)
(*   list, tuple       a sequence                                          *)
(*   dict              a function whose DOMAIN is the set of keys          *)
(*   str               a string; a thread title is the sequence of its     *)
(*                     characters, so that re.search can be computed       *)
(*   float threshold   the integer number of hundredths (0.66 is 66)       *)
(***************************************************************************)
EXTENDS Integers, Sequences, FiniteSets, TLC

VARIABLES
    requests,        \* RequestsManager.requests: thread id -> RoleRequest
    closed_requests, \* RequestsManager.closed_requests: thread id -> list
    file,            \* content of the state file STATE_FILE_NAME
    now,             \* the clock read by datetime.now(timezone.utc)
    config,          \* config.ROLES as the running process imported it
    cast,            \* history: last vote_or_change argument of each voter
    last,            \* history: the call that was made last and its outcome
    nops,            \* history: number of calls made so far
    bot              \* bot.py: the views, the suspended coroutines, and the
                     \* request objects that left the registry

vars == <<requests, closed_requests, file, now, config, cast, last, nops, bot>>

-----------------------------------------------------------------------------
(* Bounds of the model *)

MaxTime == 1        \* the clock runs over 0..MaxTime
MaxFeedback == 2    \* feedback entries accepted per request
MaxClosed == 2      \* closures archived per thread id
MaxOps == 3         \* calls made on the registry in one behaviour
MaxConstructs == 1  \* constructions from a drawn title in one behaviour
MaxHandlers == 3    \* events and commands the bot handles in one behaviour

ThreadIds == {1, 2}
Users == {1, 2}
MessageIds == {7, 8}
Texts == {"good"}
SignedVotes == {-2, -1, 8, 9}

None == <<>>
Some(x) == <<x>>

-----------------------------------------------------------------------------
(* config.py *)

DEFAULT_VOTE == 1

DEV_MODE == FALSE

Role(name, votes, percent_accept, can_be_voted_on, ignore_vote_weight, command_whitelisted) ==
    [name |-> name, votes |-> votes, percent_accept |-> percent_accept,
     can_be_voted_on |-> can_be_voted_on,
     ignore_vote_weight |-> ignore_vote_weight,
     command_whitelisted |-> command_whitelisted]

ROLES ==
    << Role("Excelsior", DEFAULT_VOTE, 0, FALSE, FALSE, FALSE),
       Role("Adept", 2, 50, TRUE, FALSE, FALSE),
       Role("Expert", 3, 75, TRUE, FALSE, FALSE),
       Role("Paragon", 4, 90, TRUE, FALSE, TRUE),
       Role("Artisan", DEFAULT_VOTE, 66, TRUE, TRUE, FALSE),
       Role("Visionary", DEFAULT_VOTE, 75, TRUE, FALSE, FALSE),
       Role("Custodian (admin)", DEFAULT_VOTE, 0, FALSE, FALSE, TRUE),
       Role("Sentinel (mod)", DEFAULT_VOTE, 0, FALSE, FALSE, TRUE) >>

can_be_voted_on(r) == r.can_be_voted_on

\* config.ROLES after an edit of two of its entries
EditedRoles ==
    [i \in 1..Len(ROLES) |->
        IF ROLES[i].name = "Adept" THEN [ROLES[i] EXCEPT !.percent_accept = 60]
        ELSE IF ROLES[i].name = "Artisan" THEN [ROLES[i] EXCEPT !.ignore_vote_weight = FALSE]
        ELSE ROLES[i]]

Configs == {ROLES, EditedRoles}

\* the roles of ROLES that can be voted on, in the order of ROLES
VotableRoles == SelectSeq(config, can_be_voted_on)

VALID_ROLES == [i \in 1..Len(VotableRoles) |-> VotableRoles[i].name]

ACCEPTANCE_THRESHOLDS ==
    [n \in {VotableRoles[i].name : i \in 1..Len(VotableRoles)} |->
        (CHOOSE r \in {VotableRoles[i] : i \in 1..Len(VotableRoles)} : r.name = n).percent_accept]

IGNORE_VOTE_WEIGHT ==
    {VotableRoles[i].name : i \in {j \in 1..Len(VotableRoles) : VotableRoles[j].ignore_vote_weight}}

-----------------------------------------------------------------------------
(* re.search(role, title, re.IGNORECASE) for the role names of VALID_ROLES, *)
(* none of which holds a character that is special in a pattern            *)

RoleChars ==
    [n \in {"Adept", "Expert", "Paragon", "Artisan", "Visionary"} |->
        CASE n = "Adept" -> <<"A", "d", "e", "p", "t">>
          [] n = "Expert" -> <<"E", "x", "p", "e", "r", "t">>
          [] n = "Paragon" -> <<"P", "a", "r", "a", "g", "o", "n">>
          [] n = "Artisan" -> <<"A", "r", "t", "i", "s", "a", "n">>
          [] n = "Visionary" -> <<"V", "i", "s", "i", "o", "n", "a", "r", "y">>]

UpperToLower ==
    [c \in {"A", "D", "E", "G", "H", "I", "N", "O", "P", "R", "S", "T", "V", "X", "Y"} |->
        CASE c = "A" -> "a" [] c = "D" -> "d" [] c = "E" -> "e" [] c = "G" -> "g"
          [] c = "H" -> "h" [] c = "I" -> "i" [] c = "N" -> "n" [] c = "O" -> "o"
          [] c = "P" -> "p" [] c = "R" -> "r" [] c = "S" -> "s" [] c = "T" -> "t"
          [] c = "V" -> "v" [] c = "X" -> "x" [] c = "Y" -> "y"]

Lower(c) == IF c \in DOMAIN UpperToLower THEN UpperToLower[c] ELSE c

\* a search that lets the pattern run past the end of the text
re_search_past_end(pattern, text) ==
    \E k \in 0..(Len(text) - 1) :
        \A i \in 1..Len(pattern) :
            k + i <= Len(text) => Lower(text[k + i]) = Lower(pattern[i])

re_search_ignorecase(pattern, text) ==
    \E k \in 0..(Len(text) - Len(pattern)) :
        \A i \in 1..Len(pattern) : Lower(text[k + i]) = Lower(pattern[i])

-----------------------------------------------------------------------------
(* request.py: class RoleRequest *)

\* raise ValueError("Invalid role.")
InvalidRole == "ValueError: Invalid role."

\* the last role of VALID_ROLES found in the title
ExtractRole_last_hit(title) ==
    LET hits == {i \in 1..Len(VALID_ROLES) :
                    re_search_ignorecase(RoleChars[VALID_ROLES[i]], title)}
    IN  IF hits = {} THEN None
        ELSE Some(VALID_ROLES[CHOOSE i \in hits : \A j \in hits : i >= j])

\* the first role of VALID_ROLES found in the title, None when there is none
ExtractRole(title) ==
    LET hits == {i \in 1..Len(VALID_ROLES) :
                    re_search_ignorecase(RoleChars[VALID_ROLES[i]], title)}
    IN  IF hits = {} THEN None
        ELSE Some(VALID_ROLES[CHOOSE i \in hits : \A j \in hits : i <= j])

\* RoleRequest.__init__: the new object, or the exception that is raised
RoleRequestInit(user_id, thread_id, title, end_time, role) ==
    LET given == role # None /\ role[1] # ""
        resolved == IF given THEN role ELSE ExtractRole(title)
    IN  IF resolved = None
        THEN [raised |-> InvalidRole, obj |-> None]
        ELSE IF resolved[1] \notin DOMAIN ACCEPTANCE_THRESHOLDS
        THEN [raised |-> "KeyError", obj |-> None]
        ELSE [raised |-> "",
              obj |-> Some([user_id |-> user_id,
                            thread_id |-> thread_id,
                            title |-> title,
                            end_time |-> end_time,
                            bot_message_id |-> None,
                            role |-> resolved[1],
                            yes_votes |-> <<>>,
                            no_votes |-> <<>>,
                            feedback |-> <<>>,
                            num_users |-> 0,
                            veto |-> None,
                            ignore_vote_weight |-> resolved[1] \in IGNORE_VOTE_WEIGHT,
                            threshold |-> ACCEPTANCE_THRESHOLDS[resolved[1]],
                            closed |-> FALSE])]

\* sum(vote[1] for vote in votes)
RECURSIVE SumVotes(_)
SumVotes(votes) ==
    IF votes = <<>> THEN 0 ELSE Head(votes)[2] + SumVotes(Tail(votes))

\* [vote for vote in votes if vote[0] != user_id]
NotBy(user_id, votes) ==
    LET other(vote) == vote[1] # user_id IN SelectSeq(votes, other)

_update_usercount(r) ==
    [r EXCEPT !.num_users = Len(r.yes_votes) + Len(r.no_votes)]

has_voted(r, user_id) ==
    LET all == r.yes_votes \o r.no_votes
    IN  user_id \in {all[i][1] : i \in 1..Len(all)}

has_submitted_feedback(r, user_id) ==
    user_id \in {r.feedback[i][1] : i \in 1..Len(r.feedback)}

\* a vote that keeps the weight it is given on every request
vote_weighted(r, user_id, votes) ==
    _update_usercount(
        IF votes < 0
        THEN [r EXCEPT !.no_votes = Append(@, <<user_id, votes * (-1)>>)]
        ELSE [r EXCEPT !.yes_votes = Append(@, <<user_id, votes>>)])

\* a vote that files the entry under the other list
vote_swapped(r, user_id, votes) ==
    LET v == IF r.ignore_vote_weight THEN (IF votes < 0 THEN -1 ELSE 1) ELSE votes
    IN  _update_usercount(
            IF v < 0
            THEN [r EXCEPT !.yes_votes = Append(@, <<user_id, v * (-1)>>)]
            ELSE [r EXCEPT !.no_votes = Append(@, <<user_id, v>>)])

vote(r, user_id, votes) ==
    LET v == IF r.ignore_vote_weight THEN (IF votes < 0 THEN -1 ELSE 1) ELSE votes
    IN  _update_usercount(
            IF v < 0
            THEN [r EXCEPT !.no_votes = Append(@, <<user_id, v * (-1)>>)]
            ELSE [r EXCEPT !.yes_votes = Append(@, <<user_id, v>>)])

\* a change of vote that clears the voter's "yes" entry only
vote_or_change_yes_only(r, user_id, new_votes) ==
    vote(IF has_voted(r, user_id)
         THEN [r EXCEPT !.yes_votes = NotBy(user_id, @)]
         ELSE r,
         user_id, new_votes)

\* a change of vote that adds to the voter's earlier vote
vote_accumulate(r, user_id, votes) ==
    LET v == IF r.ignore_vote_weight THEN (IF votes < 0 THEN -1 ELSE 1) ELSE votes
        before == SumVotes(SelectSeq(r.yes_votes \o r.no_votes,
                                     LAMBDA e : e[1] = user_id))
        kept == [r EXCEPT !.yes_votes = NotBy(user_id, @),
                          !.no_votes = NotBy(user_id, @)]
    IN  _update_usercount(
            IF v < 0
            THEN [kept EXCEPT !.no_votes = Append(@, <<user_id, before + v * (-1)>>)]
            ELSE [kept EXCEPT !.yes_votes = Append(@, <<user_id, before + v>>)])

\* a change of vote that starts the two lists again
vote_or_change_cleared(r, user_id, new_votes) ==
    vote(IF has_voted(r, user_id)
         THEN [r EXCEPT !.yes_votes = <<>>, !.no_votes = <<>>]
         ELSE r,
         user_id, new_votes)

vote_or_change(r, user_id, new_votes) ==
    vote(IF has_voted(r, user_id)
         THEN [r EXCEPT !.yes_votes = NotBy(user_id, @),
                        !.no_votes = NotBy(user_id, @)]
         ELSE r,
         user_id, new_votes)

\* a removal that leaves num_users as it was
remove_vote_stale_count(r, user_id) ==
    [r EXCEPT !.yes_votes = NotBy(user_id, @), !.no_votes = NotBy(user_id, @)]

remove_vote(r, user_id) ==
    _update_usercount([r EXCEPT !.yes_votes = NotBy(user_id, @),
                                !.no_votes = NotBy(user_id, @)])

\* a submit_feedback that keeps one entry per user
submit_feedback_once(r, user_id, feedback) ==
    IF \E i \in 1..Len(r.feedback) : r.feedback[i][1] = user_id
    THEN r
    ELSE [r EXCEPT !.feedback = Append(@, <<user_id, feedback>>)]

submit_feedback(r, user_id, feedback) ==
    [r EXCEPT !.feedback = Append(@, <<user_id, feedback>>)]

get_votes(r) == <<SumVotes(r.yes_votes), SumVotes(r.no_votes)>>

\* a comparison that denies on equality
RatioAbove(yes_count, total, pct) == yes_count * 100 > pct * total

\* yes_count / total >= threshold, for a threshold of pct hundredths. The
\* quotient of two integers below 2^53 and the literal pct/100 are both
\* rounded to the nearest double, and rounding keeps the order; two such
\* fractions that differ are further apart than one rounding step, so the
\* comparison of the doubles is the comparison of the fractions.
RatioAtLeast(yes_count, total, pct) == yes_count * 100 >= pct * total

\* a result that lets the veto decide only when no vote was cast
result_veto_after_tally(r) ==
    LET yes_count == get_votes(r)[1]
        total == yes_count + get_votes(r)[2]
    IN  IF total > 0 \/ r.veto = None
        THEN RatioAtLeast(yes_count, IF total > 0 THEN total ELSE 1, r.threshold)
        ELSE r.veto[2]

\* a result that denies every request without votes
result_empty_denied(r) ==
    IF r.veto = None
    THEN LET yes_count == get_votes(r)[1]
             total == yes_count + get_votes(r)[2]
         IN  total > 0 /\ RatioAtLeast(yes_count, total, r.threshold)
    ELSE r.veto[2]

result(r) ==
    IF r.veto = None
    THEN LET yes_count == get_votes(r)[1]
             no_count == get_votes(r)[2]
             total == yes_count + no_count
         IN  RatioAtLeast(yes_count, IF total > 0 THEN total ELSE 1, r.threshold)
    ELSE r.veto[2]

to_dict(r) ==
    [user_id |-> r.user_id,
     thread_id |-> r.thread_id,
     title |-> r.title,
     end_time |-> r.end_time,
     bot_message_id |-> r.bot_message_id,
     role |-> r.role,
     yes_votes |-> r.yes_votes,
     no_votes |-> r.no_votes,
     feedback |-> r.feedback,
     num_users |-> r.num_users,
     veto |-> r.veto,
     closed |-> r.closed]

\* data.get(key): the value as None | x
DictGet(data, key) == IF key \in DOMAIN data THEN Some(data[key]) ELSE None

\* data.get(key) or [], for a list
GetListOr(data, key) == IF key \in DOMAIN data THEN data[key] ELSE <<>>

\* data.get(key) or 0, for a number
GetNumberOr(data, key) == IF key \in DOMAIN data THEN data[key] ELSE 0

\* a from_dict that reads feedback, num_users and closed with data[key]
from_dict_requiring(data, t) ==
    LET made == RoleRequestInit(data.user_id, data.thread_id, data.title,
                                data.end_time, DictGet(data, "role"))
    IN  IF made.raised # "" THEN made
        ELSE IF ~({"feedback", "num_users", "closed"} \subseteq DOMAIN data)
        THEN [raised |-> "KeyError", obj |-> None]
        ELSE [raised |-> "",
              obj |-> Some([made.obj[1] EXCEPT
                        !.bot_message_id = IF "bot_message_id" \in DOMAIN data
                                           THEN data.bot_message_id ELSE None,
                        !.yes_votes = GetListOr(data, "yes_votes"),
                        !.no_votes = GetListOr(data, "no_votes"),
                        !.feedback = data.feedback,
                        !.num_users = data.num_users,
                        !.veto = IF "veto" \in DOMAIN data THEN data.veto ELSE None,
                        !.closed = data.closed \/ made.obj[1].end_time > t])]

\* RoleRequest.from_dict at clock value t: the object, or the exception
from_dict(data, t) ==
    LET made == RoleRequestInit(data.user_id, data.thread_id, data.title,
                                data.end_time, DictGet(data, "role"))
    IN  IF made.raised # "" THEN made
        ELSE [raised |-> "",
              obj |-> Some([made.obj[1] EXCEPT
                        !.bot_message_id = IF "bot_message_id" \in DOMAIN data
                                           THEN data.bot_message_id ELSE None,
                        !.yes_votes = GetListOr(data, "yes_votes"),
                        !.no_votes = GetListOr(data, "no_votes"),
                        !.feedback = GetListOr(data, "feedback"),
                        !.num_users = GetNumberOr(data, "num_users"),
                        !.veto = IF "veto" \in DOMAIN data THEN data.veto ELSE None,
                        !.closed = ("closed" \in DOMAIN data /\ data.closed)
                                   \/ made.obj[1].end_time > t])]

-----------------------------------------------------------------------------
(* app.py: class RequestsManager *)

\* json.dump writes the integer key of a dict as a string; load_state
\* reads it back with int()
JsonKey(i) == ToString(i)

ParseInt(k) == CHOOSE i \in ThreadIds : ToString(i) = k

\* the object that save_state hands to json.dump
Snapshot(reqs, closed) ==
    [requests |->
        [k \in {JsonKey(i) : i \in DOMAIN reqs} |-> to_dict(reqs[ParseInt(k)])],
     closed_requests |->
        [k \in {JsonKey(i) : i \in DOMAIN closed} |->
            [n \in 1..Len(closed[ParseInt(k)]) |-> to_dict(closed[ParseInt(k)][n])]]]

save_state(reqs, closed) == Some(Snapshot(reqs, closed))

\* raise ValueError("Invalid request ID.")
InvalidRequestId == "ValueError: Invalid request ID."

\* the exception of a from_dict that raised, among the outcomes of from_dict
RaisedIn(outcomes) == (CHOOSE x \in outcomes : x.raised # "").raised

\* dict without the key id
DictDel(d, id) == [i \in DOMAIN d \ {id} |-> d[i]]

\* dict with d[id] = x
DictPut(d, id, x) == [i \in DOMAIN d \cup {id} |-> IF i = id THEN x ELSE d[i]]

NoCast == [u \in Users |-> None]

\* the record of a call: its name, the thread id and the user it was given
\* (0 when it takes none), whether what it addresses was there before the
\* call, the exception it raised ("" when none) and the value it returned
Called(op, id, user, hit, raised, ret) ==
    [op |-> op, id |-> id, user |-> user, hit |-> hit, raised |-> raised, ret |-> ret]

\* the arguments add_request is called with
AddCalls ==
    { [user_id |-> 1, thread_id |-> 1, end_time |-> 1, role |-> None,
       title |-> <<"e", "x", "p", "e", "r", "t", " ", "A", "D", "E", "P", "T">>],
      [user_id |-> 2, thread_id |-> 1, end_time |-> 2, role |-> None,
       title |-> <<"P", "a", "r", "a", "g", "o", "n">>],
      [user_id |-> 1, thread_id |-> 2, end_time |-> 2, role |-> Some("Artisan"),
       title |-> <<"h", "i">>],
      [user_id |-> 2, thread_id |-> 2, end_time |-> 1, role |-> None,
       title |-> <<"h", "i">>] }

\* a file content that is kept as the text read from the file, because it
\* is not the text of a JSON object
Unparsed(text) == [raw |-> text]

Whitespace == {" ", "\n", "\t"}

\* not file.read().strip(): the text is empty or whitespace only
IsBlank(content) ==
    /\ "raw" \in DOMAIN content
    /\ \A i \in 1..Len(content.raw) : content.raw[i] \in Whitespace

\* json.loads(file_content) raises json.JSONDecodeError
IsCorrupt(content) == "raw" \in DOMAIN content /\ ~IsBlank(content)

JSONDecodeError == "JSONDecodeError"

\* a load_state without the migration: data.get(key, {}) on the content
Migrated_keyed(content) ==
    [requests |-> IF "requests" \in DOMAIN content THEN content.requests ELSE <<>>,
     closed_requests |-> IF "closed_requests" \in DOMAIN content
                         THEN content.closed_requests ELSE <<>>]

\* load_state's migration of a file content that is the flat mapping of an
\* older version, and data.get(key, {}) for the two keys it reads
Migrated(content) ==
    IF "requests" \notin DOMAIN content
    THEN [requests |-> content, closed_requests |-> <<>>]
    ELSE [requests |-> content.requests,
          closed_requests |-> IF "closed_requests" \in DOMAIN content
                              THEN content.closed_requests ELSE <<>>]

\* the dict comprehensions of load_state over a parsed file content
LoadedRequests(data, t) ==
    [i \in {ParseInt(k) : k \in DOMAIN data.requests} |->
        from_dict(data.requests[JsonKey(i)], t)]

LoadedClosed(data, t) ==
    [i \in {ParseInt(k) : k \in DOMAIN data.closed_requests} |->
        [n \in 1..Len(data.closed_requests[JsonKey(i)]) |->
            from_dict(data.closed_requests[JsonKey(i)][n], t)]]

\* the objects load_state builds when no from_dict raises
RestoredRequests(data, t) ==
    [i \in DOMAIN LoadedRequests(data, t) |-> LoadedRequests(data, t)[i].obj[1]]

RestoredClosed(data, t) ==
    [i \in DOMAIN LoadedClosed(data, t) |->
        [n \in 1..Len(LoadedClosed(data, t)[i]) |-> LoadedClosed(data, t)[i][n].obj[1]]]

\* a request of thread 1 that was voted on and closed in an earlier run
ClosedEarlier ==
    [vote_or_change(RoleRequestInit(2, 1, <<"A", "d", "e", "p", "t">>, 0, None).obj[1], 1, 8)
        EXCEPT !.closed = TRUE]

\* a later request of thread 1 on which voter 1 voted in an earlier run
OpenEarlier ==
    vote_or_change(RoleRequestInit(2, 1, <<"A", "d", "e", "p", "t">>, 1, None).obj[1], 1, 8)

\* bot.py: what the bot holds besides the registry
\*   views     the VoteView objects, in the order they were constructed
\*   tasks     the coroutines that are suspended at an await
\*   born      per thread id, how many RoleRequest objects add_request made
\*   detached  the RoleRequest objects that left requests, by reference
\*   granted   the (member, role) pairs given to member.add_roles
\*   ended     history: per object, the calls of end_vote that removed it
\*   issued    history: per object, the outcomes end_vote sent to its thread
\*   started   history: number of events and commands handled so far
\*   event     history: the handler step that ran last and its outcome
NoBot ==
    [views |-> <<>>, tasks |-> {}, born |-> [i \in ThreadIds |-> 0],
     detached |-> <<>>, granted |-> {}, ended |-> <<>>, issued |-> <<>>,
     started |-> 0,
     event |-> Called("start", 0, 0, FALSE, "", None)]

\* what the program may find when it starts: no state file, or the one an
\* earlier run left behind (with the votes that run saw last)
StartRuns ==
    { [file |-> None, cast |-> [i \in ThreadIds |-> NoCast]],
      [file |-> save_state(DictPut(<<>>, 1, OpenEarlier),
                           DictPut(<<>>, 1, <<ClosedEarlier>>)),
       cast |-> [i \in ThreadIds |->
                    [u \in Users |-> IF i = 1 /\ u = 1 THEN Some(8) ELSE None]]] }

\* bot.py: app = RequestsManager() followed by app.load_state()
Init ==
    /\ config = ROLES
    /\ now = 0
    /\ \E run \in StartRuns :
          /\ file = run.file
          /\ cast = run.cast
          /\ requests = IF run.file = None THEN <<>>
                        ELSE RestoredRequests(Migrated(run.file[1]), now)
          /\ closed_requests = IF run.file = None THEN <<>>
                               ELSE RestoredClosed(Migrated(run.file[1]), now)
    /\ last = Called("init", 0, 0, FALSE, "", None)
    /\ nops = 0
    /\ bot = NoBot

\* the record of a call of add_request, which keeps the arguments of the call
CalledAdd(c, hit, raised, ret) ==
    [op |-> "add_request", id |-> c.thread_id, user |-> c.user_id, hit |-> hit,
     raised |-> raised, ret |-> ret, call |-> c]

\* an add_request that empties the slot of the thread id before it constructs
add_request_clears_slot(c) ==
    LET made == RoleRequestInit(c.user_id, c.thread_id, c.title, c.end_time, c.role)
    IN  /\ nops < MaxOps
        /\ nops' = nops + 1
        /\ UNCHANGED <<closed_requests, now, config>>
        /\ IF made.raised # ""
           THEN /\ requests' = DictDel(requests, c.thread_id)
                /\ file' = save_state(requests', closed_requests)
                /\ cast' = [cast EXCEPT ![c.thread_id] = NoCast]
                /\ last' = CalledAdd(c, c.thread_id \in DOMAIN requests, made.raised, None)
           ELSE /\ requests' = DictPut(requests, made.obj[1].thread_id, made.obj[1])
                /\ file' = save_state(requests', closed_requests)
                /\ cast' = [cast EXCEPT ![c.thread_id] = NoCast]
                /\ last' = CalledAdd(c, c.thread_id \in DOMAIN requests, "",
                                     Some(made.obj[1].thread_id))

\* an add_request that starts the history of the thread id anew
add_request_clears_history(c) ==
    LET made == RoleRequestInit(c.user_id, c.thread_id, c.title, c.end_time, c.role)
    IN  /\ nops < MaxOps
        /\ nops' = nops + 1
        /\ UNCHANGED <<now, config>>
        /\ IF made.raised # ""
           THEN /\ UNCHANGED <<requests, closed_requests, file, cast>>
                /\ last' = CalledAdd(c, c.thread_id \in DOMAIN requests, made.raised, None)
           ELSE /\ requests' = DictPut(requests, made.obj[1].thread_id, made.obj[1])
                /\ closed_requests' = DictDel(closed_requests, c.thread_id)
                /\ file' = save_state(requests', closed_requests')
                /\ cast' = [cast EXCEPT ![c.thread_id] = NoCast]
                /\ last' = CalledAdd(c, c.thread_id \in DOMAIN requests, "",
                                     Some(made.obj[1].thread_id))

add_request(c) ==
    LET made == RoleRequestInit(c.user_id, c.thread_id, c.title, c.end_time, c.role)
    IN  /\ nops < MaxOps
        /\ nops' = nops + 1
        /\ UNCHANGED <<closed_requests, now, config>>
        /\ IF made.raised # ""
           THEN /\ UNCHANGED <<requests, file, cast>>
                /\ last' = CalledAdd(c, c.thread_id \in DOMAIN requests, made.raised, None)
           ELSE /\ requests' = DictPut(requests, made.obj[1].thread_id, made.obj[1])
                /\ file' = save_state(requests', closed_requests)
                /\ cast' = [cast EXCEPT ![c.thread_id] = NoCast]
                /\ last' = CalledAdd(c, c.thread_id \in DOMAIN requests, "",
                                     Some(made.obj[1].thread_id))

update_bot_message_id(request_id, bot_message_id) ==
    /\ nops < MaxOps
    /\ nops' = nops + 1
    /\ UNCHANGED <<closed_requests, now, config, cast>>
    /\ IF request_id \in DOMAIN requests
       THEN /\ requests' = [requests EXCEPT ![request_id].bot_message_id = Some(bot_message_id)]
            /\ file' = save_state(requests', closed_requests)
            /\ last' = Called("update_bot_message_id", request_id, 0, request_id \in DOMAIN requests, "", None)
       ELSE /\ UNCHANGED <<requests, file>>
            /\ last' = Called("update_bot_message_id", request_id, 0, request_id \in DOMAIN requests, InvalidRequestId, None)

\* a vote_on_request that does not call save_state
vote_on_request_unsaved(request_id, user_id, votes) ==
    /\ nops < MaxOps
    /\ nops' = nops + 1
    /\ UNCHANGED <<closed_requests, now, config>>
    /\ IF request_id \in DOMAIN requests
       THEN /\ requests' = [requests EXCEPT
                               ![request_id] = vote_or_change(@, user_id, votes)]
            /\ UNCHANGED file
            /\ cast' = [cast EXCEPT ![request_id][user_id] = Some(votes)]
            /\ last' = Called("vote_on_request", request_id, user_id, request_id \in DOMAIN requests /\ has_voted(requests[request_id], user_id), "", None)
       ELSE /\ UNCHANGED <<requests, file, cast>>
            /\ last' = Called("vote_on_request", request_id, user_id, request_id \in DOMAIN requests /\ has_voted(requests[request_id], user_id), InvalidRequestId, None)

vote_on_request(request_id, user_id, votes) ==
    /\ nops < MaxOps
    /\ nops' = nops + 1
    /\ UNCHANGED <<closed_requests, now, config>>
    /\ IF request_id \in DOMAIN requests
       THEN /\ requests' = [requests EXCEPT
                               ![request_id] = vote_or_change(@, user_id, votes)]
            /\ file' = save_state(requests', closed_requests)
            /\ cast' = [cast EXCEPT ![request_id][user_id] = Some(votes)]
            /\ last' = Called("vote_on_request", request_id, user_id, request_id \in DOMAIN requests /\ has_voted(requests[request_id], user_id), "", None)
       ELSE /\ UNCHANGED <<requests, file, cast>>
            /\ last' = Called("vote_on_request", request_id, user_id, request_id \in DOMAIN requests /\ has_voted(requests[request_id], user_id), InvalidRequestId, None)

remove_vote_on_request(request_id, user_id) ==
    /\ nops < MaxOps
    /\ nops' = nops + 1
    /\ UNCHANGED <<closed_requests, now, config>>
    /\ IF request_id \in DOMAIN requests
       THEN /\ requests' = [requests EXCEPT ![request_id] = remove_vote(@, user_id)]
            /\ file' = save_state(requests', closed_requests)
            /\ cast' = [cast EXCEPT ![request_id][user_id] = None]
            /\ last' = Called("remove_vote_on_request", request_id, user_id, request_id \in DOMAIN requests /\ has_voted(requests[request_id], user_id), "", None)
       ELSE /\ UNCHANGED <<requests, file, cast>>
            /\ last' = Called("remove_vote_on_request", request_id, user_id, request_id \in DOMAIN requests /\ has_voted(requests[request_id], user_id), InvalidRequestId, None)

manager_submit_feedback(request_id, user_id, feedback) ==
    /\ nops < MaxOps
    /\ request_id \in DOMAIN requests => Len(requests[request_id].feedback) < MaxFeedback
    /\ nops' = nops + 1
    /\ UNCHANGED <<closed_requests, now, config, cast>>
    /\ IF request_id \in DOMAIN requests
       THEN /\ requests' = [requests EXCEPT
                               ![request_id] = submit_feedback(@, user_id, feedback)]
            /\ file' = save_state(requests', closed_requests)
            /\ last' = Called("submit_feedback", request_id, user_id, request_id \in DOMAIN requests /\ has_submitted_feedback(requests[request_id], user_id), "", None)
       ELSE /\ UNCHANGED <<requests, file>>
            /\ last' = Called("submit_feedback", request_id, user_id, request_id \in DOMAIN requests /\ has_submitted_feedback(requests[request_id], user_id), InvalidRequestId, None)

get_request(request_id) ==
    /\ nops < MaxOps
    /\ nops' = nops + 1
    /\ UNCHANGED <<requests, closed_requests, file, now, config, cast>>
    /\ last' = Called("get_request", request_id, 0, request_id \in DOMAIN requests, "",
                      IF request_id \in DOMAIN requests
                      THEN Some(requests[request_id]) ELSE None)

get_closed_requests(thread_id) ==
    /\ nops < MaxOps
    /\ nops' = nops + 1
    /\ UNCHANGED <<requests, closed_requests, file, now, config, cast>>
    /\ last' = Called("get_closed_requests", thread_id, 0, thread_id \in DOMAIN closed_requests, "",
                      IF thread_id \in DOMAIN closed_requests
                      THEN Some(closed_requests[thread_id]) ELSE None)

\* a remove_request that accepts an id that is not active
remove_request_silent(request_id) ==
    /\ nops < MaxOps
    /\ nops' = nops + 1
    /\ UNCHANGED <<closed_requests, now, config>>
    /\ requests' = DictDel(requests, request_id)
    /\ file' = save_state(requests', closed_requests)
    /\ cast' = [cast EXCEPT ![request_id] = NoCast]
    /\ last' = Called("remove_request", request_id, 0, request_id \in DOMAIN requests, "", None)

\* a remove_request that puts the request in the history of its thread id
remove_request_archiving(request_id) ==
    /\ nops < MaxOps
    /\ nops' = nops + 1
    /\ UNCHANGED <<now, config>>
    /\ IF request_id \in DOMAIN requests
       THEN /\ closed_requests' =
                   IF request_id \notin DOMAIN closed_requests
                   THEN DictPut(closed_requests, request_id, <<requests[request_id]>>)
                   ELSE [closed_requests EXCEPT ![request_id] = Append(@, requests[request_id])]
            /\ requests' = DictDel(requests, request_id)
            /\ file' = save_state(requests', closed_requests')
            /\ cast' = [cast EXCEPT ![request_id] = NoCast]
            /\ last' = Called("remove_request", request_id, 0, request_id \in DOMAIN requests, "", None)
       ELSE /\ UNCHANGED <<requests, closed_requests, file, cast>>
            /\ last' = Called("remove_request", request_id, 0, request_id \in DOMAIN requests, InvalidRequestId, None)

remove_request(request_id) ==
    /\ nops < MaxOps
    /\ nops' = nops + 1
    /\ UNCHANGED <<closed_requests, now, config>>
    /\ IF request_id \in DOMAIN requests
       THEN /\ requests' = DictDel(requests, request_id)
            /\ file' = save_state(requests', closed_requests)
            /\ cast' = [cast EXCEPT ![request_id] = NoCast]
            /\ last' = Called("remove_request", request_id, 0, request_id \in DOMAIN requests, "", None)
       ELSE /\ UNCHANGED <<requests, file, cast>>
            /\ last' = Called("remove_request", request_id, 0, request_id \in DOMAIN requests, InvalidRequestId, None)

\* a close that puts the request in front of the thread's history
close_request_front(request_id) ==
    /\ nops < MaxOps
    /\ request_id \in DOMAIN closed_requests => Len(closed_requests[request_id]) < MaxClosed
    /\ nops' = nops + 1
    /\ UNCHANGED <<now, config>>
    /\ IF request_id \in DOMAIN requests
       THEN LET r == [requests[request_id] EXCEPT !.closed = TRUE]
            IN  /\ closed_requests' =
                       IF request_id \notin DOMAIN closed_requests
                       THEN DictPut(closed_requests, request_id, <<r>>)
                       ELSE [closed_requests EXCEPT ![request_id] = <<r>> \o @]
                /\ requests' = DictDel(requests, request_id)
                /\ file' = save_state(requests', closed_requests')
                /\ cast' = [cast EXCEPT ![request_id] = NoCast]
                /\ last' = Called("close_request", request_id, 0, TRUE, "", None)
       ELSE /\ UNCHANGED <<requests, closed_requests, file, cast>>
            /\ last' = Called("close_request", request_id, 0, FALSE, InvalidRequestId, None)

\* a close that archives the request as it stands in requests
close_request_as_is(request_id) ==
    /\ nops < MaxOps
    /\ request_id \in DOMAIN closed_requests => Len(closed_requests[request_id]) < MaxClosed
    /\ nops' = nops + 1
    /\ UNCHANGED <<now, config>>
    /\ IF request_id \in DOMAIN requests
       THEN LET r == requests[request_id]
            IN  /\ closed_requests' =
                       IF request_id \notin DOMAIN closed_requests
                       THEN DictPut(closed_requests, request_id, <<r>>)
                       ELSE [closed_requests EXCEPT ![request_id] = Append(@, r)]
                /\ requests' = DictDel(requests, request_id)
                /\ file' = save_state(requests', closed_requests')
                /\ cast' = [cast EXCEPT ![request_id] = NoCast]
                /\ last' = Called("close_request", request_id, 0, request_id \in DOMAIN requests, "", None)
       ELSE /\ UNCHANGED <<requests, closed_requests, file, cast>>
            /\ last' = Called("close_request", request_id, 0, request_id \in DOMAIN requests, InvalidRequestId, None)

close_request(request_id) ==
    /\ nops < MaxOps
    /\ request_id \in DOMAIN closed_requests => Len(closed_requests[request_id]) < MaxClosed
    /\ nops' = nops + 1
    /\ UNCHANGED <<now, config>>
    /\ IF request_id \in DOMAIN requests
       THEN LET r == [requests[request_id] EXCEPT !.closed = TRUE]
            IN  /\ closed_requests' =
                       IF request_id \notin DOMAIN closed_requests
                       THEN DictPut(closed_requests, request_id, <<r>>)
                       ELSE [closed_requests EXCEPT ![request_id] = Append(@, r)]
                /\ requests' = DictDel(requests, request_id)
                /\ file' = save_state(requests', closed_requests')
                /\ cast' = [cast EXCEPT ![request_id] = NoCast]
                /\ last' = Called("close_request", request_id, 0, request_id \in DOMAIN requests, "", None)
       ELSE /\ UNCHANGED <<requests, closed_requests, file, cast>>
            /\ last' = Called("close_request", request_id, 0, request_id \in DOMAIN requests, InvalidRequestId, None)

load_state ==
    /\ nops < MaxOps
    /\ nops' = nops + 1
    /\ UNCHANGED <<file, now, config, cast>>
    /\ IF file = None \/ IsBlank(file[1])
       THEN /\ requests' = <<>>
            /\ closed_requests' = <<>>
            /\ last' = Called("load_state", 0, 0, file # None, "", None)
       ELSE IF IsCorrupt(file[1])
       THEN /\ UNCHANGED <<requests, closed_requests>>
            /\ last' = Called("load_state", 0, 0, file # None, JSONDecodeError, None)
       ELSE LET data == Migrated(file[1])
                reqs == LoadedRequests(data, now)
                closed == LoadedClosed(data, now)
                reqsRaise == \E i \in DOMAIN reqs : reqs[i].raised # ""
                closedRaise == \E i \in DOMAIN closed :
                                   \E n \in 1..Len(closed[i]) : closed[i][n].raised # ""
            IN  IF reqsRaise
                THEN /\ UNCHANGED <<requests, closed_requests>>
                     /\ last' = Called("load_state", 0, 0, file # None,
                                       RaisedIn({reqs[i] : i \in DOMAIN reqs}), None)
                ELSE /\ requests' = RestoredRequests(data, now)
                     /\ IF closedRaise
                        THEN /\ UNCHANGED closed_requests
                             /\ last' = Called("load_state", 0, 0, file # None,
                                    RaisedIn(UNION {{closed[i][n] : n \in 1..Len(closed[i])} :
                                                      i \in DOMAIN closed}), None)
                        ELSE /\ closed_requests' = RestoredClosed(data, now)
                             /\ last' = Called("load_state", 0, 0, file # None, "", None)

-----------------------------------------------------------------------------
(* the callers of the registry *)

\* end_vote_early, from its lookup of the request to the veto: a user other
\* than the requester (any user in DEV_MODE) who chose "Approve" or "Deny"
\* sets request.veto = (ctx.user.id, res) on the request get_request returned
set_veto(request_id, user_id, res) ==
    /\ nops < MaxOps
    /\ request_id \in DOMAIN requests
    /\ ~(user_id = requests[request_id].user_id /\ ~DEV_MODE)
    /\ nops' = nops + 1
    /\ requests' = [requests EXCEPT ![request_id].veto = <<user_id, res>>]
    /\ last' = Called("set_veto", request_id, user_id, requests[request_id].veto # None, "", None)
    /\ UNCHANGED <<closed_requests, file, now, config, cast>>

\* a result() that marks the request it is asked about as closed
call_result_closing(request_id) ==
    /\ nops < MaxOps
    /\ request_id \in DOMAIN requests
    /\ nops' = nops + 1
    /\ last' = Called("result", request_id, 0, last.op = "result" /\ last.id = request_id,
                      "", Some(result(requests[request_id])))
    /\ requests' = [requests EXCEPT ![request_id].closed = TRUE]
    /\ UNCHANGED <<closed_requests, file, now, config, cast>>

\* request.result() on the request that get_request returned
call_result(request_id) ==
    /\ nops < MaxOps
    /\ request_id \in DOMAIN requests
    /\ nops' = nops + 1
    /\ last' = Called("result", request_id, 0, last.op = "result" /\ last.id = request_id, "", Some(result(requests[request_id])))
    /\ UNCHANGED <<requests, closed_requests, file, now, config, cast>>

\* time passes
Tick ==
    /\ now < MaxTime
    /\ now' = now + 1
    /\ UNCHANGED <<requests, closed_requests, file, config, cast, last, nops, bot>>

Next ==
    \/ \E c \in AddCalls : add_request(c) /\ UNCHANGED bot
    \/ \E i \in ThreadIds, m \in MessageIds : update_bot_message_id(i, m) /\ UNCHANGED bot
    \/ \E i \in ThreadIds, u \in Users, v \in SignedVotes : vote_on_request(i, u, v) /\ UNCHANGED bot
    \/ \E i \in ThreadIds, u \in Users : remove_vote_on_request(i, u) /\ UNCHANGED bot
    \/ \E i \in ThreadIds, u \in Users, t \in Texts : manager_submit_feedback(i, u, t) /\ UNCHANGED bot
    \/ \E i \in ThreadIds : get_request(i) /\ UNCHANGED bot
    \/ \E i \in ThreadIds : get_closed_requests(i) /\ UNCHANGED bot
    \/ \E i \in ThreadIds : remove_request(i) /\ UNCHANGED bot
    \/ \E i \in ThreadIds : close_request(i) /\ UNCHANGED bot
    \/ load_state /\ UNCHANGED bot
    \/ \E i \in ThreadIds, u \in Users, b \in BOOLEAN : set_veto(i, u, b) /\ UNCHANGED bot
    \/ \E i \in ThreadIds : call_result(i) /\ UNCHANGED bot
    \/ Tick

Spec == Init /\ [][Next]_vars

-----------------------------------------------------------------------------
(* the constructor as a function of the title: add_request is called on an *)
(* empty registry without a role, with a title drawn from the role names   *)
(* in three spellings, words that hold none, and their concatenations      *)

Upper(c) ==
    IF \E u \in DOMAIN UpperToLower : UpperToLower[u] = c
    THEN CHOOSE u \in DOMAIN UpperToLower : UpperToLower[u] = c
    ELSE c

LowerCased(chars) == [i \in 1..Len(chars) |-> Lower(chars[i])]

UpperCased(chars) == [i \in 1..Len(chars) |-> Upper(chars[i])]

RoleWords ==
    UNION {{RoleChars[n], LowerCased(RoleChars[n]), UpperCased(RoleChars[n])} :
             n \in DOMAIN RoleChars}

Fillers == {<<>>, <<"h", "i">>, <<"A", "d", "e", "p">>, <<" ">>}

Titles == {a \o b : a, b \in RoleWords \cup Fillers}

\* role is None, or the empty string that the constructor takes for none
ConstructCalls ==
    {[user_id |-> 1, thread_id |-> 1, end_time |-> 1, role |-> None, title |-> t] :
        t \in Titles}
    \cup {[user_id |-> 2, thread_id |-> 2, end_time |-> 1, role |-> Some(""), title |-> a] :
            a \in RoleWords \cup Fillers}

InitConstruct ==
    /\ config = ROLES
    /\ now = 0
    /\ requests = <<>>
    /\ closed_requests = <<>>
    /\ file = None
    /\ cast = [i \in ThreadIds |-> NoCast]
    /\ last = Called("init", 0, 0, FALSE, "", None)
    /\ nops = 0
    /\ bot = NoBot

\* one more construction through add_request
construct(c) ==
    /\ nops < MaxConstructs
    /\ add_request(c)

NextConstruct == \E c \in ConstructCalls : construct(c) /\ UNCHANGED bot

SpecConstruct == InitConstruct /\ [][NextConstruct]_vars

-----------------------------------------------------------------------------
(* the program stopped and started again: the objects in memory are gone,  *)
(* config.py is imported anew, possibly edited since the file was written, *)
(* and load_state reads the file, which may be one an older version wrote  *)

\* a record as the version without feedback, num_users and closed wrote it
LegacyRecord(r) ==
    [k \in DOMAIN to_dict(r) \ {"feedback", "num_users", "closed"} |-> to_dict(r)[k]]

\* the file of that version: the flat mapping of thread id to record
LegacyFile == Some([k \in {JsonKey(1)} |-> LegacyRecord(OpenEarlier)])

UpgradeRuns ==
    { [file |-> LegacyFile,
       cast |-> [i \in ThreadIds |->
                    [u \in Users |-> IF i = 1 /\ u = 1 THEN Some(8) ELSE None]]] }

\* a file that holds no JSON object: nothing, whitespace, or a cut-off text
UnparsedRuns ==
    { [file |-> Some(Unparsed(text)), cast |-> [i \in ThreadIds |-> NoCast]] :
        text \in {<<>>, <<" ", "\n">>, <<"{">>} }

\* a start that hands every text it finds in the file to json.loads
RestartedFrom_strict(f, t) ==
    IF f = None
    THEN [requests |-> <<>>, closed_requests |-> <<>>, raised |-> ""]
    ELSE IF "raw" \in DOMAIN f[1]
    THEN [requests |-> <<>>, closed_requests |-> <<>>, raised |-> JSONDecodeError]
    ELSE LET data == Migrated(f[1])
             reqs == LoadedRequests(data, t)
             closed == LoadedClosed(data, t)
             reqsRaise == \E i \in DOMAIN reqs : reqs[i].raised # ""
             closedRaise == \E i \in DOMAIN closed :
                                \E n \in 1..Len(closed[i]) : closed[i][n].raised # ""
         IN  IF reqsRaise
             THEN [requests |-> <<>>, closed_requests |-> <<>>,
                   raised |-> RaisedIn({reqs[i] : i \in DOMAIN reqs})]
             ELSE IF closedRaise
             THEN [requests |-> RestoredRequests(data, t), closed_requests |-> <<>>,
                   raised |-> RaisedIn(UNION {{closed[i][n] : n \in 1..Len(closed[i])} :
                                                 i \in DOMAIN closed})]
             ELSE [requests |-> RestoredRequests(data, t),
                   closed_requests |-> RestoredClosed(data, t), raised |-> ""]

\* what RequestsManager() followed by load_state() leaves in memory, and the
\* exception that ends the start of the program when there is one
RestartedFrom(f, t) ==
    IF f = None \/ IsBlank(f[1])
    THEN [requests |-> <<>>, closed_requests |-> <<>>, raised |-> ""]
    ELSE IF IsCorrupt(f[1])
    THEN [requests |-> <<>>, closed_requests |-> <<>>, raised |-> JSONDecodeError]
    ELSE LET data == Migrated(f[1])
             reqs == LoadedRequests(data, t)
             closed == LoadedClosed(data, t)
             reqsRaise == \E i \in DOMAIN reqs : reqs[i].raised # ""
             closedRaise == \E i \in DOMAIN closed :
                                \E n \in 1..Len(closed[i]) : closed[i][n].raised # ""
         IN  IF reqsRaise
             THEN [requests |-> <<>>, closed_requests |-> <<>>,
                   raised |-> RaisedIn({reqs[i] : i \in DOMAIN reqs})]
             ELSE IF closedRaise
             THEN [requests |-> RestoredRequests(data, t), closed_requests |-> <<>>,
                   raised |-> RaisedIn(UNION {{closed[i][n] : n \in 1..Len(closed[i])} :
                                                 i \in DOMAIN closed})]
             ELSE [requests |-> RestoredRequests(data, t),
                   closed_requests |-> RestoredClosed(data, t), raised |-> ""]

Restarted == RestartedFrom(file, now)

InitRestart ==
    /\ config = ROLES
    /\ now = 0
    /\ \E run \in StartRuns \cup UpgradeRuns \cup UnparsedRuns :
          /\ file = run.file
          /\ cast = run.cast
          /\ \E started \in {RestartedFrom(run.file, 0)} :
                /\ requests = started.requests
                /\ closed_requests = started.closed_requests
                /\ last = Called("init", 0, 0, run.file # None, started.raised, None)
    /\ nops = 0
    /\ bot = NoBot

\* the program is running: its start was not ended by an exception
Up == ~(last.op \in {"init", "restart"} /\ last.raised # "")

\* the start of bot.py under the config.ROLES that config.py now holds
restart(roles) ==
    /\ nops < MaxOps
    /\ nops' = nops + 1
    /\ config' = roles
    /\ UNCHANGED <<file, now, cast>>
    /\ \E started \in {Restarted'} :
          /\ requests' = started.requests
          /\ closed_requests' = started.closed_requests
          /\ last' = Called("restart", 0, 0, file # None, started.raised, None)

NextRestart ==
    \/ \E roles \in Configs : restart(roles) /\ UNCHANGED bot
    \/ \E c \in AddCalls : Up /\ add_request(c) /\ UNCHANGED bot
    \/ \E i \in ThreadIds, u \in Users, v \in SignedVotes : Up /\ vote_on_request(i, u, v) /\ UNCHANGED bot
    \/ \E i \in ThreadIds, u \in Users : Up /\ remove_vote_on_request(i, u) /\ UNCHANGED bot
    \/ \E i \in ThreadIds : Up /\ remove_request(i) /\ UNCHANGED bot
    \/ Tick

SpecRestart == InitRestart /\ [][NextRestart]_vars

-----------------------------------------------------------------------------
(* bot.py and the cogs: the handlers of the bot. A handler runs from one   *)
(* await to the next as one step; between two steps of a handler the steps *)
(* of other handlers can run. An await that only sends or edits a message  *)
(* ends a step and changes no state.                                       *)

\* discord: thread.owner_id and thread.name of the threads of the forum
Threads ==
    [i \in ThreadIds |->
        IF i = 1 THEN [owner_id |-> 2, name |-> <<"A", "d", "e", "p", "t">>]
        ELSE [owner_id |-> 1, name |-> <<"h", "i">>]]

\* discord: the names of thread.applied_tags when a handler reads them
TagSets == {{}, {"Artisan"}}

\* discord: the names of member.roles when a handler reads them
RoleSets == {{"Excelsior"}, {"Paragon"}, {"Artisan"}}

\* the choices of the option outcome of end_vote_early
Outcomes == {"Approve", "Deny", "Abstain"}

VOTE_TIME_PERIOD == 20

ROLE_VOTES ==
    [n \in {config[i].name : i \in 1..Len(config)} |->
        (CHOOSE r \in {config[i] : i \in 1..Len(config)} : r.name = n).votes]

COMMAND_WHITELISTED_ROLES ==
    {config[i].name : i \in {j \in 1..Len(config) : config[j].command_whitelisted}}

\* 'NoneType' object has no attribute ...
AttributeError == "AttributeError"

\* VoteView.__init__, which starts the loop check_time; stored tells whether
\* the view is one of bot.persistent_views
VoteView(thread_owner, thread_id, end_time, stored) ==
    [thread_owner |-> thread_owner, thread_id |-> thread_id, end_time |-> end_time,
     running |-> TRUE, stored |-> stored]

\* a step of a handler that calls no method of the registry
Quiet == UNCHANGED <<requests, closed_requests, file, now, config, cast, last, nops>>

\* the reference to the RoleRequest object that is now in requests[i]
Ref(i) == [id |-> i, n |-> bot.born[i]]

\* the object of the reference is the one in requests
Live(ref) == ref.id \in DOMAIN requests /\ bot.born[ref.id] = ref.n

\* a coroutine suspended at the await pc, with the locals it goes on with
Task(pc, id, user, view, ref, arg) ==
    [pc |-> pc, id |-> id, user |-> user, view |-> view, ref |-> ref, arg |-> arg]

\* next((v for v in bot.persistent_views if v.thread_id == i), None), as the
\* index of the view, 0 for None
FirstView(i) ==
    LET found == {k \in 1..Len(bot.views) :
                    bot.views[k].stored /\ bot.views[k].thread_id = i}
    IN  IF found = {} THEN 0 ELSE CHOOSE k \in found : \A j \in found : k <= j

\* the views on_ready constructs for the requests of the given ids, in the
\* order of the ids
RECURSIVE LoadedViews(_)
LoadedViews(ids) ==
    IF ids = {} THEN <<>>
    ELSE LET i == CHOOSE i \in ids : \A j \in ids : i <= j
         IN  <<VoteView(requests[i].user_id, requests[i].thread_id,
                        requests[i].end_time, TRUE)>>
             \o LoadedViews(ids \ {i})

\* on_ready: a view for every request load_state restored, added to the bot
\* with bot.add_view
on_ready ==
    /\ bot.started < MaxHandlers
    /\ Quiet
    /\ bot' = [bot EXCEPT !.started = @ + 1,
                          !.views = @ \o LoadedViews(DOMAIN requests),
                          !.event = Called("on_ready", 0, 0, TRUE, "", None)]

\* VoteView._get_user_votes for a user with the roles of the given names
_get_user_votes(roles, request) ==
    IF request.ignore_vote_weight THEN DEFAULT_VOTE
    ELSE LET weights == {DEFAULT_VOTE} \cup {ROLE_VOTES[n] : n \in roles \cap DOMAIN ROLE_VOTES}
         IN  CHOOSE w \in weights : \A x \in weights : x <= w

\* a handle_vote that lets the owner of the thread vote
handle_vote_unchecked(k, user, roles, vote_type, then) ==
    LET view == bot.views[k]
        started == [bot EXCEPT !.started = @ + 1]
    IN  IF view.thread_id \notin DOMAIN requests
        THEN /\ Quiet
             /\ bot' = [started EXCEPT
                   !.event = Called("handle_vote", view.thread_id, user, FALSE,
                                    AttributeError, None)]
        ELSE /\ vote_on_request(view.thread_id, user,
                    _get_user_votes(roles, requests[view.thread_id])
                        * (IF vote_type = "no" THEN -1 ELSE 1))
             /\ bot' = [started EXCEPT
                   !.tasks = @ \cup then,
                   !.event = Called("handle_vote", view.thread_id, user, TRUE, "", None)]

\* VoteView.handle_vote of the view k up to its await, for a user with the
\* given roles; then holds the coroutine that goes on after it returned
handle_vote(k, user, roles, vote_type, then) ==
    LET view == bot.views[k]
        started == [bot EXCEPT !.started = @ + 1]
    IN  IF user = view.thread_owner /\ ~DEV_MODE
        THEN /\ Quiet
             /\ bot' = [started EXCEPT
                   !.tasks = @ \cup then,
                   !.event = Called("handle_vote", view.thread_id, user, FALSE, "",
                                    Some("You can't vote on your own request!"))]
        ELSE IF view.thread_id \notin DOMAIN requests
        THEN /\ Quiet
             /\ bot' = [started EXCEPT
                   !.event = Called("handle_vote", view.thread_id, user, FALSE,
                                    AttributeError, None)]
        ELSE /\ vote_on_request(view.thread_id, user,
                    _get_user_votes(roles, requests[view.thread_id])
                        * (IF vote_type = "no" THEN -1 ELSE 1))
             /\ bot' = [started EXCEPT
                   !.tasks = @ \cup then,
                   !.event = Called("handle_vote", view.thread_id, user, TRUE, "", None)]

\* the "Yes" button of the message of view k
yes_button_callback(k, user, roles) ==
    /\ bot.started < MaxHandlers
    /\ bot.views[k].stored
    /\ handle_vote(k, user, roles, "yes",
           {Task("_update_displayed_member_count", bot.views[k].thread_id, user, k,
                 Ref(bot.views[k].thread_id), "")})

\* the "No" button of the message of view k
no_button_callback(k, user, roles) ==
    /\ bot.started < MaxHandlers
    /\ bot.views[k].stored
    /\ handle_vote(k, user, roles, "no",
           {Task("_update_displayed_member_count", bot.views[k].thread_id, user, k,
                 Ref(bot.views[k].thread_id), "")})

\* VoteView._update_displayed_member_count, which a button callback awaits
\* after handle_vote
_update_displayed_member_count(t) ==
    /\ t.pc = "_update_displayed_member_count"
    /\ Quiet
    /\ bot' = [bot EXCEPT
          !.tasks = @ \ {t},
          !.event = IF t.id \in DOMAIN requests
                    THEN Called("_update_displayed_member_count", t.id, t.user, TRUE, "",
                                Some(requests[t.id].num_users))
                    ELSE Called("_update_displayed_member_count", t.id, t.user, FALSE,
                                AttributeError, None)]

\* OpenCmds.vote_on_request, the command, in the thread i
OpenCmds_vote_on_request(i, user, roles, vote_type) ==
    /\ bot.started < MaxHandlers
    /\ IF i \notin DOMAIN requests
       THEN /\ Quiet
            /\ bot' = [bot EXCEPT
                  !.started = @ + 1,
                  !.event = Called("OpenCmds.vote_on_request", i, user, FALSE, "",
                                   Some("There is no active request in this thread."))]
       ELSE IF FirstView(i) = 0
       THEN /\ Quiet
            /\ bot' = [bot EXCEPT
                  !.started = @ + 1,
                  !.event = Called("OpenCmds.vote_on_request", i, user, FALSE, "",
                                   Some("An error occurred while processing your vote."))]
       ELSE handle_vote(FirstView(i), user, roles, vote_type, {})

\* one more for the key ref in the dict d of counts
Counted(d, ref) == DictPut(d, ref, IF ref \in DOMAIN d THEN d[ref] + 1 ELSE 1)

\* an end_vote that goes on with the request it removed last from the
\* thread when the thread has none
end_vote_again(k, b, veto, by) ==
    LET id == b.views[k].thread_id
        stopped == [b EXCEPT !.views[k].running = FALSE]
    IN  IF id \notin DOMAIN requests
        THEN /\ Quiet
             /\ bot' = IF Ref(id) \in DOMAIN b.ended
                       THEN [stopped EXCEPT
                               !.ended = Counted(@, Ref(id)),
                               !.tasks = @ \cup {Task("end_vote", id, by, k, Ref(id), "")},
                               !.event = Called("end_vote", id, by, TRUE, "", None)]
                       ELSE [stopped EXCEPT
                               !.event = Called("end_vote", id, by, FALSE,
                                                AttributeError, None)]
        ELSE /\ remove_request(id)
             /\ bot' = [stopped EXCEPT
                   !.detached = DictPut(@, Ref(id),
                                    IF veto = None THEN requests[id]
                                    ELSE [requests[id] EXCEPT !.veto = veto]),
                   !.ended = Counted(@, Ref(id)),
                   !.tasks = @ \cup {Task("end_vote", id, by, k, Ref(id), "")},
                   !.event = Called("end_vote", id, by, TRUE, "", None)]

\* end_vote of the view k up to its first await, called by the user by (0
\* for the loop check_time) when the bot is b; veto is what end_vote_early
\* has just written to the request that get_request returns
end_vote(k, b, veto, by) ==
    LET id == b.views[k].thread_id
        stopped == [b EXCEPT !.views[k].running = FALSE]
    IN  IF id \notin DOMAIN requests
        THEN /\ Quiet
             /\ bot' = [stopped EXCEPT
                   !.event = Called("end_vote", id, by, FALSE, AttributeError, None)]
        ELSE /\ remove_request(id)
             /\ bot' = [stopped EXCEPT
                   !.detached = DictPut(@, Ref(id),
                                    IF veto = None THEN requests[id]
                                    ELSE [requests[id] EXCEPT !.veto = veto]),
                   !.ended = Counted(@, Ref(id)),
                   !.tasks = @ \cup {Task("end_vote", id, by, k, Ref(id), "")},
                   !.event = Called("end_vote", id, by, TRUE, "", None)]

\* a check_time that waits until the end_time is behind
check_time_after(k) ==
    /\ bot.views[k].running
    /\ now > bot.views[k].end_time
    /\ end_vote(k, bot, None, 0)

\* VoteView.check_time, an iteration of the loop that finds the end_time
\* reached
check_time(k) ==
    /\ bot.views[k].running
    /\ now >= bot.views[k].end_time
    /\ end_vote(k, bot, None, 0)

\* what end_vote sends to the thread with thread.send
Denied == "Sorry! Your application has been denied."

Approved == "Congratulations! Your application has been approved."

\* "Error: Role ... not found", "Error: Member ... not found", "Error:
\* Cannot modify roles of the server owner", "Error: Bot does not have
\* permission to add roles", "Failed to add role due to an error"
NotAdded == "Error"

\* an end_vote that gives the role whatever request.result() returns
end_vote_give_role_always(t) ==
    /\ t.pc = "end_vote"
    /\ Quiet
    /\ \E found \in BOOLEAN, added \in BOOLEAN :
          \E request \in {bot.detached[t.ref]} :
             bot' = [bot EXCEPT
                !.tasks = @ \ {t},
                !.issued = IF found THEN Counted(@, t.ref) ELSE @,
                !.granted = IF found /\ added
                            THEN @ \cup {<<bot.views[t.view].thread_owner, request.role>>}
                            ELSE @,
                !.event = IF ~found
                          THEN Called("end_vote.thread", t.id, t.user, FALSE, "",
                                      Some("Error: Thread not found or is not a thread."))
                          ELSE Called("give_role", t.id, t.user, added, "",
                                      Some(IF added THEN Approved ELSE NotAdded))]

\* end_vote after its first await. The thread is found or not; when it is,
\* give_role = request.result() decides: the owner of the thread is told
\* that the application is denied, or the role is given to them, unless
\* discord has no such role or member or forbids it
end_vote_give_role(t) ==
    /\ t.pc = "end_vote"
    /\ Quiet
    /\ \E found \in BOOLEAN :
          \E request \in {bot.detached[t.ref]} :
             \E give_role \in {result(request)} :
                \E added \in (IF found /\ give_role THEN BOOLEAN ELSE {FALSE}) :
                   bot' = [bot EXCEPT
                      !.tasks = @ \ {t},
                      !.issued = IF found THEN Counted(@, t.ref) ELSE @,
                      !.granted = IF added
                                  THEN @ \cup {<<bot.views[t.view].thread_owner, request.role>>}
                                  ELSE @,
                      !.event = IF ~found
                                THEN Called("end_vote.thread", t.id, t.user, FALSE, "",
                                            Some("Error: Thread not found or is not a thread."))
                                ELSE Called("give_role", t.id, t.user, added, "",
                                            Some(IF ~give_role THEN Denied
                                                 ELSE IF added THEN Approved ELSE NotAdded))]

\* _restricted_cmd_ctx_to_thread finds a role of the user in
\* COMMAND_WHITELISTED_ROLES
Permitted(roles) == \E n \in roles : n \in COMMAND_WHITELISTED_ROLES \/ DEV_MODE

\* an end_vote_early that lets the requester end their own vote
end_vote_early_unchecked(i, user, roles, outcome) ==
    /\ bot.started < MaxHandlers
    /\ Quiet
    /\ LET started == [bot EXCEPT !.started = @ + 1]
       IN  IF ~Permitted(roles)
           THEN bot' = [started EXCEPT
                   !.event = Called("end_vote_early", i, user, FALSE, "",
                                    Some("You don't have permission to do that."))]
           ELSE IF i \notin DOMAIN requests
           THEN bot' = [started EXCEPT
                   !.event = Called("end_vote_early", i, user, FALSE, "",
                                    Some("This thread is not a role request."))]
           ELSE IF FirstView(i) = 0
           THEN bot' = [started EXCEPT
                   !.event = Called("end_vote_early", i, user, FALSE, "",
                                    Some("This thread is not currently being voted on."))]
           ELSE bot' = [started EXCEPT
                   !.tasks = @ \cup {Task("end_vote_early", i, user, FirstView(i),
                                          Ref(i), outcome)},
                   !.event = Called("end_vote_early", i, user, TRUE, "", None)]

\* end_vote_early (bot.py, RestrictedCmds) in the thread i up to the await
\* of ctx.respond
end_vote_early(i, user, roles, outcome) ==
    /\ bot.started < MaxHandlers
    /\ Quiet
    /\ LET started == [bot EXCEPT !.started = @ + 1]
       IN  IF ~Permitted(roles)
           THEN bot' = [started EXCEPT
                   !.event = Called("end_vote_early", i, user, FALSE, "",
                                    Some("You don't have permission to do that."))]
           ELSE IF i \notin DOMAIN requests
           THEN bot' = [started EXCEPT
                   !.event = Called("end_vote_early", i, user, FALSE, "",
                                    Some("This thread is not a role request."))]
           ELSE IF user = requests[i].user_id /\ ~DEV_MODE
           THEN bot' = [started EXCEPT
                   !.event = Called("end_vote_early", i, user, FALSE, "",
                                    Some("You can't end your own vote."))]
           ELSE IF FirstView(i) = 0
           THEN bot' = [started EXCEPT
                   !.event = Called("end_vote_early", i, user, FALSE, "",
                                    Some("This thread is not currently being voted on."))]
           ELSE bot' = [started EXCEPT
                   !.tasks = @ \cup {Task("end_vote_early", i, user, FirstView(i),
                                          Ref(i), outcome)},
                   !.event = Called("end_vote_early", i, user, TRUE, "", None)]

\* end_vote_early after ctx.respond: request.veto is written to the object
\* get_request returned before the await, then end_vote is called
end_vote_early_responded(t) ==
    /\ t.pc = "end_vote_early"
    /\ LET veto == IF t.arg = "Abstain" THEN None ELSE <<t.user, t.arg = "Approve">>
           rest == [bot EXCEPT !.tasks = @ \ {t}]
       IN  IF Live(t.ref)
           THEN end_vote(t.view, rest, veto, t.user)
           ELSE end_vote(t.view,
                         [rest EXCEPT !.detached[t.ref].veto =
                                          IF veto = None THEN @ ELSE veto],
                         None, t.user)

\* _init_request for the thread i up to its first await, called by the
\* handler caller: the tags and the roles of the owner are what discord
\* holds at the time (the guild and the members are found in the cache)
_init_request(caller, i, tags, owner_roles) ==
    LET thread == Threads[i]
        tagged == {n \in tags : \E j \in 1..Len(VALID_ROLES) : VALID_ROLES[j] = n}
        c == [user_id |-> thread.owner_id, thread_id |-> i, title |-> thread.name,
              end_time |-> now + VOTE_TIME_PERIOD,
              role |-> IF tagged = {} THEN None ELSE Some(CHOOSE n \in tagged : TRUE)]
        started == [bot EXCEPT !.started = @ + 1]
        made == [started EXCEPT
                   !.born[i] = @ + 1,
                   !.detached = IF i \in DOMAIN requests
                                THEN DictPut(@, Ref(i), requests[i]) ELSE @]
    IN  /\ add_request(c)
        /\ IF last'.raised # ""
           THEN bot' = [started EXCEPT
                   !.event = Called(caller, i, thread.owner_id, FALSE,
                                    last'.raised, None)]
           ELSE IF requests'[i].role \in owner_roles /\ ~DEV_MODE
           THEN bot' = [made EXCEPT
                   !.tasks = @ \cup {Task("already_has_role", i, thread.owner_id, 0,
                                          [id |-> i, n |-> made.born[i]], "")},
                   !.event = Called(caller, i, thread.owner_id, FALSE, "",
                                    Some("Error: You already have the role."))]
           ELSE bot' = [made EXCEPT
                   !.views = Append(@, VoteView(thread.owner_id, i, c.end_time, FALSE)),
                   !.tasks = @ \cup {Task("thread.send", i, thread.owner_id,
                                          Len(bot.views) + 1,
                                          [id |-> i, n |-> made.born[i]], "")},
                   !.event = Called(caller, i, thread.owner_id, TRUE, "", None)]

\* on_thread_create for a thread of the forum that the bot has not seen
on_thread_create(i, tags, owner_roles) ==
    /\ bot.started < MaxHandlers
    /\ bot.born[i] = 0
    /\ i \notin DOMAIN requests
    /\ i \notin DOMAIN closed_requests
    /\ _init_request("on_thread_create", i, tags, owner_roles)

\* create_vote (bot.py) in the thread i by a user with the given roles
create_vote(i, user, roles) ==
    /\ bot.started < MaxHandlers
    /\ IF ~Permitted(roles)
       THEN /\ Quiet
            /\ bot' = [bot EXCEPT
                  !.started = @ + 1,
                  !.event = Called("create_vote", i, user, FALSE, "",
                                   Some("You don't have permission to do that."))]
       ELSE \E tags \in TagSets, owner_roles \in RoleSets :
               _init_request("create_vote", i, tags, owner_roles)

\* what RestrictedCmds.create_vote answers in a thread that has a request
AlreadyRunning == "This thread already has a running vote."

\* a create_vote that does not look for a request of the thread
RestrictedCmds_create_vote_unchecked(i, user, roles) ==
    /\ bot.started < MaxHandlers
    /\ IF ~Permitted(roles)
       THEN /\ Quiet
            /\ bot' = [bot EXCEPT
                  !.started = @ + 1,
                  !.event = Called("RestrictedCmds.create_vote", i, user, FALSE, "",
                                   Some("You don't have permission to do that."))]
       ELSE \E tags \in TagSets, owner_roles \in RoleSets :
               _init_request("RestrictedCmds.create_vote", i, tags, owner_roles)

\* RestrictedCmds.create_vote in the thread i by a user with the given roles
RestrictedCmds_create_vote(i, user, roles) ==
    /\ bot.started < MaxHandlers
    /\ IF ~Permitted(roles)
       THEN /\ Quiet
            /\ bot' = [bot EXCEPT
                  !.started = @ + 1,
                  !.event = Called("RestrictedCmds.create_vote", i, user, FALSE, "",
                                   Some("You don't have permission to do that."))]
       ELSE IF i \in DOMAIN requests
       THEN /\ Quiet
            /\ bot' = [bot EXCEPT
                  !.started = @ + 1,
                  !.event = Called("RestrictedCmds.create_vote", i, user, TRUE, "",
                                   Some(AlreadyRunning))]
       ELSE \E tags \in TagSets, owner_roles \in RoleSets :
               _init_request("RestrictedCmds.create_vote", i, tags, owner_roles)

\* RestrictedCmds.force_delete_request in the thread i up to the await of
\* the question "Are you sure ...". Nothing stops check_time of a view
force_delete_request(i, user, roles) ==
    /\ bot.started < MaxHandlers
    /\ Quiet
    /\ LET started == [bot EXCEPT !.started = @ + 1]
       IN  IF ~Permitted(roles)
           THEN bot' = [started EXCEPT
                   !.event = Called("force_delete_request", i, user, FALSE, "",
                                    Some("You don't have permission to do that."))]
           ELSE bot' = [started EXCEPT
                   !.tasks = @ \cup {Task("wait_for", i, user, 0, Ref(i), "")},
                   !.event = Called("force_delete_request", i, user, TRUE, "", None)]

\* force_delete_request after the awaits of the confirmation and of
\* _log_command_use: the user confirmed and the use was logged, or not;
\* then request = app.get_request(thread.id)
force_delete_request_confirmed(t, confirmed) ==
    /\ t.pc = "wait_for"
    /\ Quiet
    /\ LET rest == [bot EXCEPT !.tasks = @ \ {t}]
       IN  IF ~confirmed
           THEN bot' = [rest EXCEPT
                   !.event = Called("force_delete_request", t.id, t.user, FALSE, "",
                                    Some("Force-delete request timed out."))]
           ELSE IF t.id \notin DOMAIN requests
           THEN bot' = [rest EXCEPT
                   !.event = Called("force_delete_request", t.id, t.user, FALSE, "",
                                    Some("This thread is not an active role request."))]
           ELSE bot' = [rest EXCEPT
                   !.tasks = @ \cup {Task("message.delete", t.id, t.user, 0, Ref(t.id), "")},
                   !.event = Called("force_delete_request", t.id, t.user, TRUE, "", None)]

\* force_delete_request after the awaits of thread.fetch_message and
\* message.delete: app.remove_request(thread.id), whose exception the
\* handler catches and logs
force_delete_request_deleted(t) ==
    /\ t.pc = "message.delete"
    /\ remove_request(t.id)
    /\ bot' = [bot EXCEPT
          !.tasks = @ \ {t},
          !.detached = IF t.id \in DOMAIN requests
                       THEN DictPut(@, Ref(t.id), requests[t.id]) ELSE @,
          !.event = Called("force_delete_request", t.id, t.user, last'.raised = "", "",
                           IF last'.raised = "" THEN Some("Request deleted.") ELSE None)]

\* _init_request after the await of thread.send("Error: You already have
\* the role ..."): app.remove_request(thread_id)
_init_request_has_role(t) ==
    /\ t.pc = "already_has_role"
    /\ remove_request(t.id)
    /\ bot' = [bot EXCEPT
          !.tasks = @ \ {t},
          !.detached = IF t.id \in DOMAIN requests
                       THEN DictPut(@, Ref(t.id), requests[t.id]) ELSE @,
          !.event = Called("_init_request", t.id, t.user, FALSE, last'.raised, None)]

\* _init_request after the await of thread.send(embed=embed, view=view):
\* the view is one of bot.persistent_views and the message has the id m
_init_request_sent(t, m) ==
    /\ t.pc = "thread.send"
    /\ Quiet
    /\ bot' = [bot EXCEPT
          !.tasks = (@ \ {t}) \cup {Task("vote_message.pin", t.id, t.user, t.view, t.ref, m)},
          !.views[t.view].stored = TRUE,
          !.event = Called("_init_request", t.id, t.user, TRUE, "", Some(m))]

\* _init_request after the await of vote_message.pin():
\* app.update_bot_message_id(thread_id, vote_message.id)
_init_request_pinned(t) ==
    /\ t.pc = "vote_message.pin"
    /\ update_bot_message_id(t.id, t.arg)
    /\ bot' = [bot EXCEPT
          !.tasks = @ \ {t},
          !.event = Called("_init_request", t.id, t.user, last'.raised = "",
                           last'.raised, None)]

NextBot ==
    \/ on_ready
    \/ \E k \in 1..Len(bot.views), u \in Users, roles \in RoleSets :
          yes_button_callback(k, u, roles)
    \/ \E k \in 1..Len(bot.views), u \in Users, roles \in RoleSets :
          no_button_callback(k, u, roles)
    \/ \E t \in bot.tasks : _update_displayed_member_count(t)
    \/ \E i \in ThreadIds, u \in Users, roles \in RoleSets, vote_type \in {"yes", "no"} :
          OpenCmds_vote_on_request(i, u, roles, vote_type)
    \/ \E k \in 1..Len(bot.views) : check_time(k)
    \/ \E t \in bot.tasks : end_vote_give_role(t)
    \/ \E i \in ThreadIds, u \in Users, roles \in RoleSets, outcome \in Outcomes :
          end_vote_early(i, u, roles, outcome)
    \/ \E t \in bot.tasks : end_vote_early_responded(t)
    \/ \E i \in ThreadIds, tags \in TagSets, owner_roles \in RoleSets :
          on_thread_create(i, tags, owner_roles)
    \/ \E i \in ThreadIds, u \in Users, roles \in RoleSets : create_vote(i, u, roles)
    \/ \E t \in bot.tasks : _init_request_has_role(t)
    \/ \E t \in bot.tasks, m \in MessageIds : _init_request_sent(t, m)
    \/ \E t \in bot.tasks : _init_request_pinned(t)
    \/ Tick

\* the bot starts as the registry does: bot.py runs app.load_state() first
InitBot == Init

SpecBot == InitBot /\ [][NextBot]_vars

\* the bot with the cog RestrictedCmds loaded, whose commands stand for
\* create_vote and end_vote_early of bot.py: the events of discord (on_ready
\* as the first of them), the timers and the restricted commands
NextRestricted ==
    \/ bot.started = 0 /\ on_ready
    \/ \E i \in ThreadIds, tags \in TagSets, owner_roles \in RoleSets :
          on_thread_create(i, tags, owner_roles)
    \/ \E i \in ThreadIds, u \in Users, roles \in RoleSets :
          RestrictedCmds_create_vote(i, u, roles)
    \/ \E t \in bot.tasks : _init_request_has_role(t)
    \/ \E t \in bot.tasks, m \in MessageIds : _init_request_sent(t, m)
    \/ \E t \in bot.tasks : _init_request_pinned(t)
    \/ \E i \in ThreadIds, u \in Users, roles \in RoleSets, outcome \in Outcomes :
          end_vote_early(i, u, roles, outcome)
    \/ \E t \in bot.tasks : end_vote_early_responded(t)
    \/ \E i \in ThreadIds, u \in Users, roles \in RoleSets : force_delete_request(i, u, roles)
    \/ \E t \in bot.tasks, confirmed \in BOOLEAN : force_delete_request_confirmed(t, confirmed)
    \/ \E t \in bot.tasks : force_delete_request_deleted(t)
    \/ \E k \in 1..Len(bot.views) : check_time(k)
    \/ \E t \in bot.tasks : end_vote_give_role(t)
    \/ Tick

SpecRestricted == InitBot /\ [][NextRestricted]_vars

\* the restored requests whose end_time the clock of the model reaches: each
\* is owed the call of remove_request that ends it
Owed == Cardinality({i \in DOMAIN requests : requests[i].end_time <= MaxTime})

\* a handler may call the registry while the calls owed to the timers remain
Room == nops + Owed < MaxOps

\* the iterations of the loops of the views: tasks.loop(seconds=CHECK_TIME)
\* runs check_time of every view again and again until stop() is called
Timers == \E k \in 1..Len(bot.views) : check_time(k)

\* the bot whose views were made by on_ready, with the members who vote and
\* the managers who end votes early while the timers run
NextTimer ==
    \/ on_ready
    \/ Room /\ \E k \in 1..Len(bot.views), u \in Users, roles \in RoleSets :
                  yes_button_callback(k, u, roles)
    \/ Room /\ \E k \in 1..Len(bot.views), u \in Users, roles \in RoleSets :
                  no_button_callback(k, u, roles)
    \/ Room /\ \E t \in bot.tasks : _update_displayed_member_count(t)
    \/ \E i \in ThreadIds, u \in Users, roles \in RoleSets, outcome \in Outcomes :
          end_vote_early(i, u, roles, outcome)
    \/ \E t \in bot.tasks : end_vote_early_responded(t)
    \/ Timers
    \/ \E t \in bot.tasks : end_vote_give_role(t)
    \/ Tick

\* the loop of a view that is running is scheduled every CHECK_TIME seconds
SpecTimer == InitBot /\ [][NextTimer]_vars /\ WF_vars(Timers)

-----------------------------------------------------------------------------
(* result() as a function of the request: the request is drawn from every  *)
(* threshold of config.ROLES, every ballot two voters can leave and every  *)
(* veto, and result() is applied to it                                     *)

PercentAccepts == {ROLES[i].percent_accept : i \in 1..Len(ROLES)}

\* a vote in either direction with each magnitude of SignedVotes
BothWays == SignedVotes \cup {0 - v : v \in SignedVotes}

Vetoes == {None} \cup {<<u, b>> : u \in Users, b \in BOOLEAN}

\* the ballots after voter 1 and then voter 2 each voted or stayed away
Balloted(r, v1, v2) ==
    LET r1 == IF v1 = None THEN r ELSE vote_or_change(r, 1, v1[1])
    IN  IF v2 = None THEN r1 ELSE vote_or_change(r1, 2, v2[1])

ResultInputs ==
    { [Balloted(RoleRequestInit(1, 1, <<"h", "i">>, 1, Some(n)).obj[1], v1, v2)
          EXCEPT !.threshold = th, !.veto = veto] :
        n \in {"Paragon", "Artisan"}, th \in PercentAccepts, veto \in Vetoes,
        v1 \in {None} \cup {Some(v) : v \in BothWays},
        v2 \in {None} \cup {Some(v) : v \in BothWays} }

InitResult ==
    /\ config = ROLES
    /\ \E r \in ResultInputs : requests = DictPut(<<>>, r.thread_id, r)
    /\ closed_requests = <<>>
    /\ file = None
    /\ now = 0
    /\ cast = [i \in ThreadIds |-> NoCast]
    /\ last = Called("init", 0, 0, FALSE, "", None)
    /\ nops = 0
    /\ bot = NoBot

NextResult == \E i \in ThreadIds : call_result(i) /\ UNCHANGED bot

SpecResult == InitResult /\ [][NextResult]_vars

\* the request result() was called on last, when that was the last call
Decided(i) == last.op = "result" /\ last.id = i /\ i \in DOMAIN requests

-----------------------------------------------------------------------------
(* Properties *)

\* C1: with a veto (overrider, forcedOutcome) set, result() returns
\* forcedOutcome whatever the two ballots hold.
C1_VetoDecides ==
    \A i \in ThreadIds :
        (Decided(i) /\ requests[i].veto # None)
            => last.ret = Some(requests[i].veto[2])

\* a veto to approve was returned although only "no" votes were cast
C1_Witness ==
    \E i \in ThreadIds :
        /\ Decided(i)
        /\ requests[i].veto # None /\ requests[i].veto[2]
        /\ requests[i].yes_votes = <<>> /\ requests[i].no_votes # <<>>
        /\ last.ret = Some(TRUE)

\* C2: without a veto and with a positive total weight, result() is true
\* exactly when yes / (yes + no) >= threshold; at threshold 0.9 the tally
\* (9, 1) approves and the tally (8, 2) denies.
C2_ThresholdDecides ==
    \A i \in ThreadIds :
        (Decided(i) /\ requests[i].veto = None)
            => LET yes == get_votes(requests[i])[1]
                   no == get_votes(requests[i])[2]
                   pct == requests[i].threshold
               IN  /\ yes + no > 0 =>
                        (last.ret = Some(TRUE) <=> yes * 100 >= pct * (yes + no))
                   /\ (pct = 90 /\ yes = 9 /\ no = 1) => last.ret = Some(TRUE)
                   /\ (pct = 90 /\ yes = 8 /\ no = 2) => last.ret = Some(FALSE)

\* the tally (9, 1) met the threshold 0.9 exactly and was approved
C2_Witness ==
    \E i \in ThreadIds :
        /\ Decided(i)
        /\ requests[i].veto = None
        /\ requests[i].threshold = 90
        /\ get_votes(requests[i]) = <<9, 1>>
        /\ last.ret = Some(TRUE)

\* C3: without a veto and without votes, result() returns a value: true
\* when the threshold is 0 and false when it is greater than 0.
C3_NoVotes ==
    \A i \in ThreadIds :
        (Decided(i) /\ requests[i].veto = None
            /\ requests[i].yes_votes = <<>> /\ requests[i].no_votes = <<>>)
            => /\ last.raised = ""
               /\ last.ret = Some(requests[i].threshold = 0)

\* a request with threshold 0 and no votes was approved
C3_Witness ==
    \E i \in ThreadIds :
        /\ Decided(i)
        /\ requests[i].veto = None
        /\ requests[i].yes_votes = <<>> /\ requests[i].no_votes = <<>>
        /\ requests[i].threshold = 0
        /\ last.ret = Some(TRUE)

\* the entries of the two ballots, "yes" first
Entries(r) == r.yes_votes \o r.no_votes

\* every request object the registry holds
Held ==
    {requests[i] : i \in DOMAIN requests}
        \cup UNION {{closed_requests[i][n] : n \in 1..Len(closed_requests[i])} :
                       i \in DOMAIN closed_requests}

\* C4: after any sequence of votes and cancellations a voter has at most
\* one ballot entry: never one in each ballot, never two in one ballot.
C4_OneEntryPerVoter ==
    \A i \in DOMAIN requests :
        \A a, b \in 1..Len(Entries(requests[i])) :
            a # b => Entries(requests[i])[a][1] # Entries(requests[i])[b][1]

\* a voter who had an entry voted again and holds one entry
C4_Witness ==
    /\ last.op = "vote_on_request" /\ last.hit /\ last.raised = ""
    /\ last.id \in DOMAIN requests
    /\ Len(SelectSeq(Entries(requests[last.id]), LAMBDA e : e[1] = last.user)) = 1
    /\ Len(Entries(requests[last.id])) = 2

\* what a vote of v adds to the tally of request r
Contribution(r, v) ==
    LET weight == IF r.ignore_vote_weight THEN 1 ELSE IF v < 0 THEN 0 - v ELSE v
    IN  IF v < 0 THEN <<0, weight>> ELSE <<weight, 0>>

\* the part of the tally of request r that comes from the entries of voter u
Share(r, u) ==
    LET mine(e) == e[1] = u
    IN  <<SumVotes(SelectSeq(r.yes_votes, mine)), SumVotes(SelectSeq(r.no_votes, mine))>>

RECURSIVE SumShares(_, _, _)
SumShares(r, voters, k) ==
    IF voters = {} THEN 0
    ELSE LET u == CHOOSE x \in voters : TRUE
         IN  Share(r, u)[k] + SumShares(r, voters \ {u}, k)

\* C5: a voter who voted several times contributes to the tally the
\* direction and weight of the last of these votes only, and the tally is
\* the sum of these contributions.
C5_LastVoteCounts ==
    \A i \in DOMAIN requests :
        /\ \A u \in Users :
              cast[i][u] # None =>
                  Share(requests[i], u) = Contribution(requests[i], cast[i][u][1])
        /\ \A k \in {1, 2} :
              get_votes(requests[i])[k] =
                  SumShares(requests[i], {u \in Users : cast[i][u] # None}, k)

\* a voter's "yes" of weight 8 or 9 was replaced by a "no" of weight 2
\* while another voter holds an entry
C5_Witness ==
    /\ last.op = "vote_on_request" /\ last.hit /\ last.raised = ""
    /\ last.id \in DOMAIN requests
    /\ cast[last.id][last.user] = Some(-2)
    /\ Share(requests[last.id], last.user) = <<0, 2>>
    /\ \E u \in Users \ {last.user} : cast[last.id][u] # None

\* C6: num_users is the number of entries of the two ballots, which is the
\* number of voters holding an entry.
C6_UserCount ==
    \A r \in Held :
        /\ r.num_users = Len(r.yes_votes) + Len(r.no_votes)
        /\ r.num_users = Cardinality({Entries(r)[a][1] : a \in 1..Len(Entries(r))})

\* a vote was cancelled and one other voter is left
C6_Witness ==
    /\ last.op = "remove_vote_on_request" /\ last.hit /\ last.raised = ""
    /\ last.id \in DOMAIN requests
    /\ requests[last.id].num_users = 1
    /\ Len(Entries(requests[last.id])) = 1

\* C7: result() changes no field of the request (nor anything else the
\* registry holds), and called twice in a row it returns the same value.
C7_ResultIsPure ==
    [][(last'.op = "result" /\ nops' # nops)
          => /\ requests' = requests
             /\ closed_requests' = closed_requests
             /\ file' = file
             /\ (last.op = "result" /\ last.id = last'.id) => last'.ret = last.ret]_vars

\* result() was called twice in a row on a request with votes
C7_Witness ==
    /\ last.op = "result" /\ last.hit
    /\ last.id \in DOMAIN requests
    /\ Entries(requests[last.id]) # <<>>

\* C8: add_request for an id that is active fails with
\* DuplicateRequestError and leaves the active request as it was.
C8_DuplicateRejected ==
    [][(last'.op = "add_request" /\ nops' # nops /\ last'.id \in DOMAIN requests)
          => /\ last'.raised = "DuplicateRequestError"
             /\ requests' = requests]_vars

\* C9: close_request of an active id takes the request out of requests and
\* puts it, with closed set and its ballots as they were, at the end of
\* the thread's history, whose earlier elements stay where they were.
C9_CloseArchives ==
    [][(last'.op = "close_request" /\ nops' # nops /\ last'.id \in DOMAIN requests)
          => LET id == last'.id
                 before == IF id \in DOMAIN closed_requests
                           THEN closed_requests[id] ELSE <<>>
             IN  /\ id \notin DOMAIN requests'
                 /\ id \in DOMAIN closed_requests'
                 /\ Len(closed_requests'[id]) = Len(before) + 1
                 /\ SubSeq(closed_requests'[id], 1, Len(before)) = before
                 /\ closed_requests'[id][Len(before) + 1] =
                        [requests[id] EXCEPT !.closed = TRUE]
                 /\ \A j \in DOMAIN closed_requests \ {id} :
                        j \in DOMAIN closed_requests'
                            /\ closed_requests'[j] = closed_requests[j]]_vars

\* a thread that had been closed before was closed again
C9_Witness ==
    /\ last.op = "close_request" /\ last.hit /\ last.raised = ""
    /\ last.id \notin DOMAIN requests
    /\ last.id \in DOMAIN closed_requests
    /\ Len(closed_requests[last.id]) = 2
    /\ closed_requests[last.id][2].closed
    /\ Entries(closed_requests[last.id][2]) # <<>>

\* the fields of a request that the state file names
RecordFields ==
    {"user_id", "thread_id", "title", "end_time", "bot_message_id", "role",
     "yes_votes", "no_votes", "feedback", "veto", "closed"}

\* C10: from_dict(to_dict(r)) has the user_id, thread_id, title, end_time,
\* bot_message_id, role, ballots, feedback, veto and closed flag of r, for
\* every request the registry holds.
C10_RoundTrip ==
    \A r \in Held :
        LET back == from_dict(to_dict(r), now)
        IN  /\ back.raised = ""
            /\ \A f \in RecordFields : to_dict(back.obj[1])[f] = to_dict(r)[f]

\* the records of the state file, active and closed
FileRecords ==
    IF file = None \/ "raw" \in DOMAIN file[1] THEN {}
    ELSE LET data == Migrated(file[1])
         IN  {data.requests[k] : k \in DOMAIN data.requests}
             \cup UNION {{data.closed_requests[k][n] : n \in 1..Len(data.closed_requests[k])} :
                            k \in DOMAIN data.closed_requests}

\* C11: a request that stays active keeps the threshold and the
\* ignore_vote_weight it was constructed with through every step that does
\* not construct a new request for its thread id, a restart with an edited
\* config.py included
C11_FrozenAtConstruction ==
    [][\A i \in DOMAIN requests \cap DOMAIN requests' :
          \/ last'.op = "add_request" /\ nops' # nops /\ last'.id = i
          \/ /\ requests'[i].threshold = requests[i].threshold
             /\ requests'[i].ignore_vote_weight = requests[i].ignore_vote_weight]_vars

\* C12: from_dict of every record of the state file, one without num_users
\* included, gives a request whose num_users is the number of its "yes"
\* and "no" entries
C12_CountFromBallots ==
    \A d \in FileRecords :
        LET made == from_dict(d, now)
        IN  made.raised = ""
            => made.obj[1].num_users
                 = Len(made.obj[1].yes_votes) + Len(made.obj[1].no_votes)

\* the calls of the registry that change what it holds
MutatingOps ==
    {"add_request", "update_bot_message_id", "vote_on_request", "remove_vote_on_request",
     "submit_feedback", "remove_request", "close_request"}

\* the calls of the registry that address an active request by its id
AddressingOps == MutatingOps \ {"add_request"}

\* C13: when the last call was a mutating call of the registry that raised
\* nothing, the state file holds the snapshot of requests and closed_requests
\* as they are in memory.
C13_SavedAfterMutation ==
    (last.op \in MutatingOps /\ last.raised = "")
        => file = save_state(requests, closed_requests)

\* a vote was changed on a request while another thread id has a history:
\* the file holds both
C13_Witness ==
    /\ last.op = "vote_on_request" /\ last.hit /\ last.raised = ""
    /\ closed_requests # <<>>
    /\ file = save_state(requests, closed_requests)
    /\ Entries(requests[last.id]) # <<>>

\* C14: update_bot_message_id, vote_on_request, remove_vote_on_request,
\* submit_feedback, remove_request and close_request on an id that is not
\* active raise the "Invalid request ID." error and leave requests,
\* closed_requests and the state file as they were.
C14_NotFound ==
    [][(last'.op \in AddressingOps /\ nops' # nops /\ last'.id \notin DOMAIN requests)
          => /\ last'.raised = InvalidRequestId
             /\ requests' = requests
             /\ closed_requests' = closed_requests
             /\ file' = file]_vars

\* a call on an id that is not active, while the registry holds another
\* request and the id has a history
C14_Witness ==
    /\ last.op \in AddressingOps /\ last.raised = InvalidRequestId
    /\ last.id \notin DOMAIN requests
    /\ last.id \in DOMAIN closed_requests
    /\ requests # <<>>
    /\ file = save_state(requests, closed_requests)

\* C15: an add_request that raises the "Invalid role." error registers
\* nothing: requests, closed_requests and the state file are as before.
C15_FailedAddRegistersNothing ==
    [][(last'.op = "add_request" /\ nops' # nops /\ last'.raised = InvalidRole)
          => /\ requests' = requests
             /\ closed_requests' = closed_requests
             /\ file' = file]_vars

\* the add_request that failed named a thread id that is active
C15_Witness ==
    /\ last.op = "add_request" /\ last.raised = InvalidRole /\ last.hit
    /\ last.call.role = None
    /\ last.id \in DOMAIN requests
    /\ Entries(requests[last.id]) # <<>>

\* C16: on a request with ignore_vote_weight every ballot entry has weight
\* 1, and the entry of a voter is in no_votes when the vote they cast last
\* was negative and in yes_votes otherwise.
C16_WeightIgnored ==
    /\ \A r \in Held :
          r.ignore_vote_weight => \A a \in 1..Len(Entries(r)) : Entries(r)[a][2] = 1
    /\ \A i \in DOMAIN requests : \A u \in Users :
          (requests[i].ignore_vote_weight /\ cast[i][u] # None)
              => LET mine(e) == e[1] = u
                 IN  IF cast[i][u][1] < 0
                     THEN /\ SelectSeq(requests[i].no_votes, mine) = <<(<<u, 1>>)>>
                          /\ SelectSeq(requests[i].yes_votes, mine) = <<>>
                     ELSE /\ SelectSeq(requests[i].yes_votes, mine) = <<(<<u, 1>>)>>
                          /\ SelectSeq(requests[i].no_votes, mine) = <<>>

\* on a request with ignore_vote_weight one voter voted 9 and the other -2
C16_Witness ==
    /\ last.op = "vote_on_request" /\ last.raised = ""
    /\ last.id \in DOMAIN requests
    /\ requests[last.id].ignore_vote_weight
    /\ \E u, w \in Users : cast[last.id][u] = Some(9) /\ cast[last.id][w] = Some(-2)
    /\ requests[last.id].yes_votes # <<>>
    /\ requests[last.id].no_votes # <<>>

\* C19: a mutating call of the registry leaves every history of
\* closed_requests as a prefix of what it is afterwards: no entry is
\* removed, moved or changed, and a history only grows at its end.
C19_HistoryAppendOnly ==
    [][(last'.op \in MutatingOps /\ nops' # nops)
          => \A i \in DOMAIN closed_requests :
                /\ i \in DOMAIN closed_requests'
                /\ Len(closed_requests[i]) <= Len(closed_requests'[i])
                /\ SubSeq(closed_requests'[i], 1, Len(closed_requests[i]))
                     = closed_requests[i]]_vars

\* a thread id whose request was closed twice has a new active request
C19_Witness ==
    /\ last.op = "add_request" /\ last.raised = ""
    /\ last.id \in DOMAIN closed_requests
    /\ Len(closed_requests[last.id]) = 2
    /\ last.id \in DOMAIN requests

\* C20: remove_request of an active id takes the id out of requests,
\* leaves the other requests as they were and leaves closed_requests
\* unchanged.
C20_RemoveDoesNotArchive ==
    [][(last'.op = "remove_request" /\ nops' # nops /\ last'.id \in DOMAIN requests)
          => /\ last'.raised = ""
             /\ requests' = DictDel(requests, last'.id)
             /\ closed_requests' = closed_requests]_vars

\* a request with ballots was removed from a thread id that has a history
C20_Witness ==
    /\ last.op = "remove_request" /\ last.hit /\ last.raised = ""
    /\ last.id \notin DOMAIN requests
    /\ last.id \in DOMAIN closed_requests
    /\ Len(closed_requests[last.id]) = 1

\* the name occurs in the title as a substring, letter case set aside
Occurs(name, title) ==
    \E k \in 1..Len(title) :
        /\ k + Len(name) - 1 <= Len(title)
        /\ LowerCased(SubSeq(title, k, k + Len(name) - 1)) = LowerCased(name)

\* the positions in VALID_ROLES of the names that occur in the title
NamesIn(title) == {i \in 1..Len(VALID_ROLES) : Occurs(RoleChars[VALID_ROLES[i]], title)}

\* the last call constructed a request from a title, without a role
FromTitle == last.op = "add_request" /\ (last.call.role = None \/ last.call.role = Some(""))

\* C17: a construction without a role from a title in which a name of
\* VALID_ROLES occurs raises nothing, and the role of the new request is
\* the name that stands first in VALID_ROLES among those that occur,
\* whichever of them comes first in the title.
C17_FirstRoleOfList ==
    (FromTitle /\ NamesIn(last.call.title) # {})
        => /\ last.raised = ""
           /\ last.id \in DOMAIN requests
           /\ requests[last.id].title = last.call.title
           /\ \E i \in NamesIn(last.call.title) :
                 /\ requests[last.id].role = VALID_ROLES[i]
                 /\ \A j \in NamesIn(last.call.title) : i <= j

\* the title is a later name of VALID_ROLES followed by an earlier one, in
\* another spelling than that of the list
C17_Witness ==
    /\ FromTitle /\ last.raised = ""
    /\ Cardinality(NamesIn(last.call.title)) = 2
    /\ \E i, j \in NamesIn(last.call.title) :
          /\ i < j
          /\ requests[last.id].role = VALID_ROLES[i]
          /\ Occurs(RoleChars[VALID_ROLES[j]],
                    SubSeq(last.call.title, 1, Len(RoleChars[VALID_ROLES[j]])))
          /\ last.call.title # RoleChars[VALID_ROLES[j]] \o RoleChars[VALID_ROLES[i]]

\* C18: a construction without a role from a title in which no name of
\* VALID_ROLES occurs raises the "Invalid role." error, returns nothing and
\* leaves no request with that title in the registry.
C18_NoRoleInTitle ==
    (FromTitle /\ NamesIn(last.call.title) = {})
        => /\ last.raised = InvalidRole
           /\ last.ret = None
           /\ \A r \in Held : r.title # last.call.title

\* the title that failed holds the first four letters of a role name
C18_Witness ==
    /\ FromTitle /\ last.raised = InvalidRole
    /\ NamesIn(last.call.title) = {}
    /\ Occurs(<<"A", "d", "e", "p">>, last.call.title)

-----------------------------------------------------------------------------
(* the cancellation of a vote that was never cast, the message id of the   *)
(* prompt, the start from a file that is missing, unreadable or of an      *)
(* older version, and feedback                                             *)

\* the step is a call of the registry operation op
Step(op) == last'.op = op /\ nops' # nops

\* C21: a remove_vote_on_request for a user who has no entry in the "yes"
\* or "no" list of the active request raises nothing and leaves yes_votes,
\* no_votes and num_users of the request as they were
C21_CancelOfNonVoter ==
    [][(Step("remove_vote_on_request") /\ last'.id \in DOMAIN requests /\ ~last'.hit)
        => /\ last'.raised = ""
           /\ requests'[last'.id].yes_votes = requests[last'.id].yes_votes
           /\ requests'[last'.id].no_votes = requests[last'.id].no_votes
           /\ requests'[last'.id].num_users = requests[last'.id].num_users]_vars

\* C22: bot_message_id is None after the add_request that constructed the
\* request, and an update_bot_message_id on an active request whose
\* bot_message_id is set leaves it as it was
C22_PromptSetOnce ==
    [][/\ (Step("add_request") /\ last'.raised = "")
            => requests'[last'.id].bot_message_id = None
       /\ (/\ Step("update_bot_message_id")
           /\ last'.id \in DOMAIN requests
           /\ requests[last'.id].bot_message_id # None)
            => requests'[last'.id].bot_message_id = requests[last'.id].bot_message_id]_vars

\* the last step was a start of the program
Started == last.op \in {"init", "restart"}

\* C23: a start from a file whose text is not that of a snapshot raises
\* nothing and leaves requests and closed_requests empty
C23_CorruptStartsEmpty ==
    (Started /\ file # None /\ IsCorrupt(file[1]))
        => /\ last.raised = ""
           /\ requests = <<>>
           /\ closed_requests = <<>>

\* C24: a start without a file, or from a file that is empty or holds only
\* whitespace, raises nothing and leaves requests and closed_requests empty
C24_MissingOrBlankStartsEmpty ==
    (Started /\ (file = None \/ IsBlank(file[1])))
        => /\ last.raised = ""
           /\ requests = <<>>
           /\ closed_requests = <<>>

\* the program was started again on a file of whitespace
C24_Witness ==
    /\ last.op = "restart"
    /\ file = Some(Unparsed(<<" ", "\n">>))
    /\ last.raised = ""
    /\ requests = <<>>
    /\ closed_requests = <<>>

\* the file holds the flat mapping of thread id to record
IsFlat(content) == "raw" \notin DOMAIN content /\ "requests" \notin DOMAIN content

\* the fields of a request that the older version wrote
LegacyFields ==
    {"user_id", "thread_id", "title", "end_time", "bot_message_id", "role",
     "yes_votes", "no_votes", "veto"}

\* C25: a start from a file that is the flat mapping of thread id to record
\* raises nothing, leaves in requests exactly the ids of the file, each with
\* the fields its record gives, and leaves closed_requests empty
C25_FlatMappingIsActive ==
    (Started /\ file # None /\ IsFlat(file[1]))
        => /\ last.raised = ""
           /\ DOMAIN requests = {ParseInt(k) : k \in DOMAIN file[1]}
           /\ \A k \in DOMAIN file[1] :
                 \A f \in LegacyFields \cap DOMAIN file[1][k] :
                    to_dict(requests[ParseInt(k)])[f] = file[1][k][f]
           /\ closed_requests = <<>>

\* the program was started again on the file of the older version and
\* holds its request, with the vote on it, and no history
C25_Witness ==
    /\ last.op = "restart"
    /\ file = LegacyFile
    /\ DOMAIN requests = {1}
    /\ requests[1].yes_votes = <<(<<1, 8>>)>>
    /\ closed_requests = <<>>

\* the records of the file that lack feedback, num_users and closed
LegacyRecords ==
    {d \in FileRecords : {"feedback", "num_users", "closed"} \cap DOMAIN d = {}}

\* C26: from_dict of a record without feedback, num_users and closed raises
\* nothing and gives a request with no feedback, num_users 0 and the closed
\* flag that the comparison of end_time with the clock gives
C26_LegacyDefaults ==
    \A d \in LegacyRecords :
        LET made == from_dict(d, now)
        IN  /\ made.raised = ""
            /\ made.obj[1].feedback = <<>>
            /\ made.obj[1].num_users = 0
            /\ made.obj[1].closed = (d.end_time > now)

\* the program was started on the file of the older version at a clock
\* value past the end_time of its record, and holds what from_dict made
C26_Witness ==
    /\ last.op = "restart"
    /\ LegacyRecords # {}
    /\ now = 1
    /\ 1 \in DOMAIN requests
    /\ requests[1].feedback = <<>>
    /\ requests[1].num_users = 0
    /\ requests[1].end_time = 1
    /\ ~requests[1].closed

\* C27: a submit_feedback on an active request raises nothing and appends
\* the one entry (user_id, feedback) to the end of the feedback of the
\* request, whatever it holds already, and leaves yes_votes, no_votes and
\* num_users as they were
C27_FeedbackAppends ==
    [][(Step("submit_feedback") /\ last'.id \in DOMAIN requests)
        => /\ last'.raised = ""
           /\ \E t \in Texts :
                 requests'[last'.id].feedback
                    = Append(requests[last'.id].feedback, <<last'.user, t>>)
           /\ requests'[last'.id].yes_votes = requests[last'.id].yes_votes
           /\ requests'[last'.id].no_votes = requests[last'.id].no_votes
           /\ requests'[last'.id].num_users = requests[last'.id].num_users]_vars

\* a user submitted feedback twice on a request that holds a vote: both
\* entries are there
C27_Witness ==
    /\ last.op = "submit_feedback" /\ last.hit /\ last.raised = ""
    /\ last.id \in DOMAIN requests
    /\ Len(requests[last.id].feedback) = 2
    /\ requests[last.id].feedback[1][1] = last.user
    /\ requests[last.id].feedback[2][1] = last.user
    /\ Entries(requests[last.id]) # <<>>

-----------------------------------------------------------------------------
(* the bot: the end of a vote, votes on one's own request, and the veto    *)

\* the step is a step of the handler op of the bot
BotStep(op) == bot' # bot /\ bot'.event.op = op

\* every request object there is: in the registry, in its history, or held
\* by a handler after it left the registry
AllRequests == Held \cup {bot.detached[ref] : ref \in DOMAIN bot.detached}

\* C28: an end_vote that found the request of its view, whether check_time
\* or end_vote_early called it, leaves that request, with the ballots it
\* had, as the last element of closed_requests of its thread id
C28_EndedVoteIsArchived ==
    [][(BotStep("end_vote") /\ bot'.event.hit)
        => \E id \in {bot'.event.id} :
              /\ id \in DOMAIN closed_requests'
              /\ closed_requests'[id] # <<>>
              /\ \E kept \in {closed_requests'[id][Len(closed_requests'[id])]} :
                    [kept EXCEPT !.closed = TRUE, !.veto = None]
                        = [requests[id] EXCEPT !.closed = TRUE, !.veto = None]]_vars

\* C29: with DEV_MODE off, whatever buttons were pressed and whatever
\* vote_on_request commands were given, no request holds an entry of its
\* own user_id in yes_votes or no_votes
C29_NoVoteOnOwnRequest ==
    ~DEV_MODE => \A r \in AllRequests : ~has_voted(r, r.user_id)

\* the requester pressed a button of their own request, on which another
\* user has voted in this run, and was told that they cannot vote
C29_Witness ==
    /\ bot.event.op = "handle_vote"
    /\ ~bot.event.hit
    /\ bot.event.ret = Some("You can't vote on your own request!")
    /\ bot.event.id \in DOMAIN requests
    /\ bot.event.user = requests[bot.event.id].user_id
    /\ last.op = "vote_on_request" /\ last.id = bot.event.id /\ last.raised = ""
    /\ Entries(requests[bot.event.id]) # <<>>

\* C30: with DEV_MODE off, an end_vote_early by the user_id of the request
\* of the thread is refused, starts nothing and changes no request; and no
\* request object has a veto whose first component is its own user_id
C30_NoVetoByRequester ==
    [][~DEV_MODE =>
         /\ (/\ BotStep("end_vote_early")
             /\ bot'.event.id \in DOMAIN requests
             /\ bot'.event.user = requests[bot'.event.id].user_id)
              => /\ ~bot'.event.hit
                 /\ bot'.tasks = bot.tasks
                 /\ bot'.detached = bot.detached
                 /\ requests' = requests
         /\ \A r \in AllRequests' : r.veto # None => r.veto[1] # r.user_id]_vars

\* end_vote_early by a user who is not the requester has ended the vote:
\* the request left the registry with the veto of that user
C30_Witness ==
    /\ bot.event.op = "end_vote" /\ bot.event.hit
    /\ \E ref \in DOMAIN bot.detached :
          /\ ref.id = bot.event.id
          /\ bot.detached[ref].veto # None
          /\ bot.detached[ref].veto[1] = bot.event.user
          /\ bot.detached[ref].user_id # bot.event.user

-----------------------------------------------------------------------------
(* the bot: what the end of a vote does, commands given to a thread that   *)
(* has a request, the timers of the views, and handlers that interleave    *)

\* the coroutine that the step went on with
Resumed == bot.tasks \ bot'.tasks

\* C31: when end_vote has evaluated request.result(), the role is given
\* only if it returned true, and then it is the role of the request given
\* to the user of the request; if it returned false no role is given and
\* the thread is told that the application has been denied
C31_RoleOnlyWhenDecided ==
    [][BotStep("give_role")
        => \E t \in Resumed :
              \E request \in {bot.detached[t.ref]} :
                 /\ bot'.event.hit
                      => /\ result(request)
                         /\ bot'.granted = bot.granted \cup {<<request.user_id, request.role>>}
                 /\ ~bot'.event.hit => bot'.granted = bot.granted
                 /\ ~result(request)
                      => /\ ~bot'.event.hit
                         /\ bot'.event.ret = Some(Denied)]_vars

\* a vote that the timer ended was decided by its ballots, and the role
\* was given to the requester
C31_Witness ==
    /\ bot.event.op = "give_role" /\ bot.event.hit
    /\ bot.event.user = 0
    /\ \E ref \in DOMAIN bot.detached :
          /\ ref.id = bot.event.id
          /\ bot.detached[ref].veto = None
          /\ Entries(bot.detached[ref]) # <<>>
          /\ result(bot.detached[ref])
          /\ <<bot.detached[ref].user_id, bot.detached[ref].role>> \in bot.granted

\* C32: RestrictedCmds.create_vote in a thread that has an active request
\* leaves requests, closed_requests and the state file as they were and
\* starts nothing; its answer to a user who may use the command is that
\* the thread already has a running vote
C32_CreateVoteOnActiveThread ==
    [][(BotStep("RestrictedCmds.create_vote") /\ bot'.event.id \in DOMAIN requests)
        => /\ requests' = requests
           /\ closed_requests' = closed_requests
           /\ file' = file
           /\ bot'.views = bot.views
           /\ bot'.tasks = bot.tasks
           /\ bot'.event.ret \in {Some(AlreadyRunning),
                                  Some("You don't have permission to do that.")}
           /\ bot'.event.hit => bot'.event.ret = Some(AlreadyRunning)]_vars

\* the command was answered in a thread whose request holds a vote
C32_Witness ==
    /\ bot.event.op = "RestrictedCmds.create_vote"
    /\ bot.event.ret = Some(AlreadyRunning)
    /\ bot.event.id \in DOMAIN requests
    /\ Entries(requests[bot.event.id]) # <<>>

\* C33: an end_vote that check_time called and that found a request in its
\* thread finds the clock at or past the end_time of that request, the one
\* it removes
C33_TimerNotBeforeDeadline ==
    [][(BotStep("end_vote") /\ bot'.event.hit /\ bot'.event.user = 0)
        => now >= requests[bot'.event.id].end_time]_vars

\* C34: a step of handle_vote or of _update_displayed_member_count, which
\* a button callback awaits one after the other, finds the request of the
\* thread of its view in requests: it does not go on with None
C34_ButtonFindsRequest ==
    [][(BotStep("handle_vote") \/ BotStep("_update_displayed_member_count"))
        => bot'.event.raised # AttributeError]_vars

\* C35: whatever calls of end_vote check_time and end_vote_early make for a
\* thread, and however they interleave, a request object is removed from
\* requests by at most one of them, and at most one outcome (the role given,
\* the denial, or the error that kept the role from being given) is sent
\* for it
C35_EndOfVoteOnce ==
    /\ \A ref \in DOMAIN bot.ended : bot.ended[ref] = 1
    /\ \A ref \in DOMAIN bot.issued : bot.issued[ref] = 1 /\ ref \in DOMAIN bot.ended
    /\ \A t, u \in bot.tasks :
          (t.pc = "end_vote" /\ u.pc = "end_vote" /\ t.ref = u.ref) => t = u
    /\ \A t \in bot.tasks : t.pc = "end_vote" => t.ref \notin DOMAIN bot.issued

\* end_vote_early called end_vote for a thread whose request the timer had
\* removed while the command was answered: the call found no request, and
\* the outcome of the request was sent once
C35_Witness ==
    /\ bot.event.op = "end_vote" /\ bot.event.raised = AttributeError
    /\ bot.event.user # 0
    /\ \E ref \in DOMAIN bot.issued :
          /\ ref.id = bot.event.id
          /\ bot.issued[ref] = 1
          /\ bot.ended[ref] = 1

\* C36: when the timers are scheduled fairly, a request object that is in
\* requests, whose thread has a view with a running timer and whose end_time
\* the clock has reached, leaves requests in the end; the view is the one
\* on_ready made, before or after the end_time was reached
C36_DueRequestRemoved ==
    \A i \in ThreadIds : \A n \in 0..MaxHandlers :
        (/\ Live([id |-> i, n |-> n])
         /\ now >= requests[i].end_time
         /\ \E k \in 1..Len(bot.views) :
               bot.views[k].running /\ bot.views[k].thread_id = i)
        ~> ~Live([id |-> i, n |-> n])

\* the timer of a view on_ready made has removed a request whose end_time
\* had been reached, and the view is stopped
C36_Witness ==
    /\ bot.event.op = "end_vote" /\ bot.event.hit /\ bot.event.user = 0
    /\ bot.event.id \notin DOMAIN requests
    /\ \E ref \in DOMAIN bot.detached :
          ref.id = bot.event.id /\ now >= bot.detached[ref].end_time
    /\ \E k \in 1..Len(bot.views) :
          /\ bot.views[k].thread_id = bot.event.id
          /\ bot.views[k].stored /\ ~bot.views[k].running

-----------------------------------------------------------------------------
(* the registry of a first run: RequestsManager() with no state file, and  *)
(* the methods that add, change and retire requests; load_state is not     *)
(* called again                                                            *)

InitFresh == Init /\ file = None

NextFresh ==
    \/ \E c \in AddCalls : add_request(c) /\ UNCHANGED bot
    \/ \E i \in ThreadIds, m \in MessageIds : update_bot_message_id(i, m) /\ UNCHANGED bot
    \/ \E i \in ThreadIds, u \in Users, v \in SignedVotes : vote_on_request(i, u, v) /\ UNCHANGED bot
    \/ \E i \in ThreadIds, u \in Users : remove_vote_on_request(i, u) /\ UNCHANGED bot
    \/ \E i \in ThreadIds, u \in Users, t \in Texts : manager_submit_feedback(i, u, t) /\ UNCHANGED bot
    \/ \E i \in ThreadIds : remove_request(i) /\ UNCHANGED bot
    \/ \E i \in ThreadIds : close_request(i) /\ UNCHANGED bot

SpecFresh == InitFresh /\ [][NextFresh]_vars

-----------------------------------------------------------------------------
(* result() as the ballot grows: the request is drawn with the vote of a   *)
(* member 3 and the vote voter 1 cast or did not cast, the voters who      *)
(* stayed away vote, with every weight of BothWays and with the weight 0,  *)
(* and result() is called                                                  *)

NewVotes == BothWays \cup {0}

BallotInputs ==
    { [Balloted(vote_or_change(RoleRequestInit(1, 1, <<"h", "i">>, 1, Some(n)).obj[1], 3, v3),
                v1, None)
          EXCEPT !.threshold = th, !.veto = veto] :
        n \in {"Paragon", "Artisan"}, th \in PercentAccepts, veto \in Vetoes,
        v3 \in BothWays, v1 \in {None} \cup {Some(v) : v \in BothWays} }

InitBallot ==
    /\ config = ROLES
    /\ \E r \in BallotInputs : requests = DictPut(<<>>, r.thread_id, r)
    /\ closed_requests = <<>>
    /\ file = None
    /\ now = 0
    /\ cast = [i \in ThreadIds |-> NoCast]
    /\ last = Called("init", 0, 0, FALSE, "", None)
    /\ nops = 0
    /\ bot = NoBot

NextBallot ==
    \/ \E i \in ThreadIds, u \in Users, v \in NewVotes :
          /\ i \in DOMAIN requests
          /\ ~has_voted(requests[i], u)
          /\ vote_on_request(i, u, v)
          /\ UNCHANGED bot
    \/ \E i \in ThreadIds : call_result(i) /\ UNCHANGED bot

SpecBallot == InitBallot /\ [][NextBallot]_vars

-----------------------------------------------------------------------------
(* The requests again: what a vote leaves alone, what the registry of a    *)
(* first run holds, and how result() follows the ballot                    *)

\* C37: a call of vote_on_request or remove_vote_on_request for the voter v
\* that does not raise leaves the entries of every other voter in yes_votes
\* and in no_votes as they were, with their weights and in their order, and
\* leaves feedback, veto, closed, role and threshold of the request as they
\* were; only the entry of v and num_users may differ
C37_OnlyOwnBallot ==
    [][((Step("vote_on_request") \/ Step("remove_vote_on_request")) /\ last'.raised = "")
       => LET r == requests[last'.id]
              q == requests'[last'.id]
              v == last'.user
          IN  /\ NotBy(v, q.yes_votes) = NotBy(v, r.yes_votes)
              /\ NotBy(v, q.no_votes) = NotBy(v, r.no_votes)
              /\ q.feedback = r.feedback
              /\ q.veto = r.veto
              /\ q.closed = r.closed
              /\ q.role = r.role
              /\ q.threshold = r.threshold]_vars

\* a voter who had voted changed the vote on a request that holds the entry
\* of another voter
C37_Witness ==
    /\ last.op = "vote_on_request" /\ last.hit /\ last.raised = ""
    /\ last.id \in DOMAIN requests
    /\ has_voted(requests[last.id], last.user)
    /\ NotBy(last.user, requests[last.id].yes_votes \o requests[last.id].no_votes) # <<>>

\* C38: in a registry that started empty and was changed by add_request,
\* update_bot_message_id, vote_on_request, remove_vote_on_request,
\* submit_feedback, remove_request and close_request only, every request in
\* requests has closed = False and every request in a sequence of
\* closed_requests has closed = True
C38_ClosedFlagFollowsPlace ==
    /\ \A i \in DOMAIN requests : ~requests[i].closed
    /\ \A i \in DOMAIN closed_requests :
          \A n \in 1..Len(closed_requests[i]) : closed_requests[i][n].closed

\* a thread has a closed request in its history and a later request that is
\* active
C38_Witness ==
    \E i \in DOMAIN requests :
        /\ i \in DOMAIN closed_requests
        /\ closed_requests[i] # <<>>
        /\ last.op = "add_request" /\ last.id = i

\* C39: on a request without a veto, the vote of a member who had not
\* voted moves result() one way only: after a vote that is not negative (a
\* "yes" of any weight from 0 up) a result() that was True is still True,
\* and after a negative vote (a "no") a result() that was False is still
\* False
C39_ResultMonotone ==
    [][(/\ Step("vote_on_request") /\ last'.raised = ""
        /\ ~has_voted(requests[last'.id], last'.user)
        /\ requests[last'.id].veto = None)
       => LET r == requests[last'.id]
              q == requests'[last'.id]
              votes == cast'[last'.id][last'.user][1]
          IN  /\ (votes >= 0 /\ result(r)) => result(q)
              /\ (votes < 0 /\ ~result(r)) => ~result(q)]_vars

\* a member who had not voted voted "yes" on a request without a veto that
\* held the "no" of another member and was accepted, and it is accepted
\* still
C39_Witness ==
    /\ last.op = "vote_on_request" /\ ~last.hit /\ last.raised = ""
    /\ last.id \in DOMAIN requests
    /\ LET q == requests[last.id]
           r == remove_vote(q, last.user)
       IN  /\ q.veto = None
           /\ q.threshold > 0
           /\ r.no_votes # <<>>
           /\ q.yes_votes # <<>> /\ q.yes_votes[Len(q.yes_votes)][1] = last.user
           /\ result(r)
           /\ result(q)

====
